---- MODULE Spec2Model ----
(***************************************************************************)
(* Record validation as performed by the lesson scripts of the repository. *)
(* Every script declares schemas (classes deriving from BaseModel), builds  *)
(* records from raw input and prints either the record or the aggregated   *)
(* ValidationError.  The schemas, field validators, model validators and   *)
(* computed fields below are the ones declared in the scripts; building a  *)
(* record follows the construction rules of the validation library the     *)
(* scripts import (pydantic v2), as the scripts' docstrings describe them. *)
(*                                                                         *)
(* Representation.  A raw or validated value is a tagged record            *)
(* [t |-> tag, v |-> payload].  A text is a sequence of one-character      *)
(* strings, so that parsing and normalisation are computed character by    *)
(* character.  A float is held in hundredths (2500.5 is 250050).           *)
(***************************************************************************)
EXTENDS Integers, Sequences, FiniteSets, TLC

VARIABLES script, call, out, dump, records, heap, clock, flights, last

vars == <<script, call, out, dump, records, heap, clock, flights, last>>

----------------------------------------------------------------------------
(* Values *)

I(n) == [t |-> "int", v |-> n]

S(s) == [t |-> "str", v |-> s]

F(h) == [t |-> "float", v |-> h]

B(b) == [t |-> "bool", v |-> b]

None == [t |-> "none", v |-> 0]

D(m) == [t |-> "dict", v |-> m]

L(s) == [t |-> "list", v |-> s]

Ref(i) == [t |-> "ref", v |-> i]

Inst(cls, fields) == [t |-> "model", v |-> [cls |-> cls, fields |-> fields]]

(* The result of a conversion: ok with a value, or a failure kind. *)
Ok(v) == [ok |-> TRUE, v |-> v, kind |-> ""]

Fail(kind) == [ok |-> FALSE, v |-> None, kind |-> kind]

----------------------------------------------------------------------------
(* Text helpers *)

Digits == {"0", "1", "2", "3", "4", "5", "6", "7", "8", "9"}

DigitVal(c) ==
  CASE c = "0" -> 0 [] c = "1" -> 1 [] c = "2" -> 2 [] c = "3" -> 3
    [] c = "4" -> 4 [] c = "5" -> 5 [] c = "6" -> 6 [] c = "7" -> 7
    [] c = "8" -> 8 [] c = "9" -> 9

IsDigitRun(s) == Len(s) > 0 /\ \A i \in 1..Len(s) : s[i] \in Digits

RECURSIVE DigitsVal(_)
DigitsVal(s) ==
  IF s = <<>> THEN 0
  ELSE 10 * DigitsVal(SubSeq(s, 1, Len(s) - 1)) + DigitVal(s[Len(s)])

RECURSIVE Trim(_)
Trim(s) ==
  IF s = <<>> THEN s
  ELSE IF Head(s) = " " THEN Trim(Tail(s))
  ELSE IF s[Len(s)] = " " THEN Trim(SubSeq(s, 1, Len(s) - 1))
  ELSE s

(* As StripDecimalZeros, but a point is never dropped *)
KeepDecimalZeros(s) == s

(* "101.0" loses its point and the zeros after it; "10.5" is left alone. *)
StripDecimalZeros(s) ==
  LET dots == {i \in 1..Len(s) : s[i] = "."}
  IN IF dots = {} THEN s
     ELSE LET d == CHOOSE i \in dots : \A j \in dots : i <= j
          IN IF \A k \in (d + 1)..Len(s) : s[k] = "0"
             THEN SubSeq(s, 1, d - 1)
             ELSE s

(* An optionally signed run of decimal digits. *)
ParseSignedInt(s) ==
  IF s # <<>> /\ Head(s) \in {"-", "+"}
  THEN IF IsDigitRun(Tail(s))
       THEN Ok(I((IF Head(s) = "-" THEN -1 ELSE 1) * DigitsVal(Tail(s))))
       ELSE Fail("int_parsing")
  ELSE IF IsDigitRun(s) THEN Ok(I(DigitsVal(s))) ELSE Fail("int_parsing")

StrAsInt(s) == ParseSignedInt(StripDecimalZeros(Trim(s)))

(* Decimal text to hundredths: digits, optionally a point and more digits. *)
(* Digits after the second decimal place are below the resolution kept.    *)
ParseUnsignedFloat(s) ==
  LET dots == {i \in 1..Len(s) : s[i] = "."}
  IN IF dots = {}
     THEN IF IsDigitRun(s) THEN Ok(F(100 * DigitsVal(s))) ELSE Fail("float_parsing")
     ELSE LET d == CHOOSE i \in dots : TRUE
              ip == SubSeq(s, 1, d - 1)
              fp == SubSeq(s, d + 1, Len(s))
              f2 == SubSeq(fp \o <<"0", "0">>, 1, 2)
          IN IF /\ Cardinality(dots) = 1
                /\ Len(ip) + Len(fp) > 0
                /\ \A i \in 1..Len(ip) : ip[i] \in Digits
                /\ \A i \in 1..Len(fp) : fp[i] \in Digits
             THEN Ok(F(100 * DigitsVal(ip) + DigitsVal(f2)))
             ELSE Fail("float_parsing")

StrAsFloat(s) ==
  LET t == Trim(s)
  IN IF t # <<>> /\ Head(t) \in {"-", "+"}
     THEN LET r == ParseUnsignedFloat(Tail(t))
          IN IF r.ok THEN Ok(F((IF Head(t) = "-" THEN -1 ELSE 1) * r.v.v)) ELSE r
     ELSE ParseUnsignedFloat(t)

Upper == <<"A", "B", "C", "D", "E", "F", "G", "H", "I", "J", "K", "L", "M",
           "N", "O", "P", "Q", "R", "S", "T", "U", "V", "W", "X", "Y", "Z">>

Lower == <<"a", "b", "c", "d", "e", "f", "g", "h", "i", "j", "k", "l", "m",
           "n", "o", "p", "q", "r", "s", "t", "u", "v", "w", "x", "y", "z">>

LowerChar(c) ==
  IF \E i \in 1..Len(Upper) : Upper[i] = c
  THEN Lower[CHOOSE i \in 1..Len(Upper) : Upper[i] = c]
  ELSE c

LowerText(s) == [i \in 1..Len(s) |-> LowerChar(s[i])]

IsAlnumChar(c) ==
  \/ c \in Digits
  \/ \E i \in 1..Len(Upper) : Upper[i] = c \/ Lower[i] = c

(* The tokens a text may carry for a boolean field, compared in lower case. *)
TruthyTexts ==
  { <<"1">>, <<"t">>, <<"y">>, <<"o", "n">>, <<"y", "e", "s">>,
    <<"t", "r", "u", "e">> }

FalsyTexts ==
  { <<"0">>, <<"f">>, <<"n">>, <<"n", "o">>, <<"o", "f", "f">>,
    <<"f", "a", "l", "s", "e">> }

(* As StrAsBool, but by truthiness: every text but the empty one is true *)
StrAsBoolByTruthiness(s) == Ok(B(s # <<>>))

StrAsBool(s) ==
  LET l == LowerText(s)
  IN IF l \in TruthyTexts THEN Ok(B(TRUE))
     ELSE IF l \in FalsyTexts THEN Ok(B(FALSE))
     ELSE Fail("bool_parsing")

StartsWith(s, p) == Len(s) >= Len(p) /\ SubSeq(s, 1, Len(p)) = p

----------------------------------------------------------------------------
(* Scalar conversions, lax (the default) and strict (ConfigDict(strict=True)) *)

IntValidate(x, strict) ==
  IF x.t = "int" THEN Ok(x)
  ELSE IF strict THEN Fail("int_type")
  ELSE IF x.t = "bool" THEN Ok(I(IF x.v THEN 1 ELSE 0))
  ELSE IF x.t = "float"
       THEN IF x.v % 100 = 0 THEN Ok(I(x.v \div 100)) ELSE Fail("int_from_float")
  ELSE IF x.t = "str" THEN StrAsInt(x.v)
  ELSE Fail("int_type")

FloatValidate(x, strict) ==
  IF x.t = "float" THEN Ok(x)
  ELSE IF x.t = "int" THEN Ok(F(100 * x.v))
  ELSE IF strict THEN Fail("float_type")
  ELSE IF x.t = "bool" THEN Ok(F(IF x.v THEN 100 ELSE 0))
  ELSE IF x.t = "str" THEN StrAsFloat(x.v)
  ELSE Fail("float_type")

BoolValidate(x, strict) ==
  IF x.t = "bool" THEN Ok(x)
  ELSE IF strict THEN Fail("bool_type")
  ELSE IF x.t = "int"
       THEN IF x.v \in {0, 1} THEN Ok(B(x.v = 1)) ELSE Fail("bool_parsing")
  ELSE IF x.t = "float"
       THEN IF x.v \in {0, 100} THEN Ok(B(x.v = 100)) ELSE Fail("bool_parsing")
  ELSE IF x.t = "str" THEN StrAsBool(x.v)
  ELSE Fail("bool_type")

StrValidate(x, strict) ==
  IF x.t = "str" THEN Ok(x) ELSE Fail("string_type")

----------------------------------------------------------------------------
(* Declared types *)

Ty(k) == [k |-> k, of |-> <<>>, cls |-> "", vals |-> {}]

TInt == Ty("int")

TStr == Ty("str")

TFloat == Ty("float")

TBool == Ty("bool")

TDatetime == Ty("datetime")

TEmail == Ty("email")

TUrl == Ty("url")

TUuid == Ty("uuid")

TSecret == Ty("secret")

TOpt(ty) == [k |-> "optional", of |-> <<ty>>, cls |-> "", vals |-> {}]

TList(ty) == [k |-> "list", of |-> <<ty>>, cls |-> "", vals |-> {}]

TUnion(tys) == [k |-> "union", of |-> tys, cls |-> "", vals |-> {}]

TModel(cls) == [k |-> "model", of |-> <<>>, cls |-> cls, vals |-> {}]

TLiteral(vals) == [k |-> "literal", of |-> <<>>, cls |-> "", vals |-> vals]

(* Field declarations *)

NoCons == [ge |-> {}, le |-> {}, minLen |-> {}, maxLen |-> {}, pattern |-> ""]

Req(name, ty) ==
  [name |-> name, alias |-> name, ty |-> ty, required |-> TRUE, default |-> None,
   factory |-> "", cons |-> NoCons, before |-> "", after |-> ""]

Dflt(name, ty, d) == [Req(name, ty) EXCEPT !.required = FALSE, !.default = d]

Fact(name, ty, f) == [Req(name, ty) EXCEPT !.required = FALSE, !.factory = f]

Cons(fs, c) == [fs EXCEPT !.cons = c]

Ge(n) == [NoCons EXCEPT !.ge = {n}]

GeLe(a, b) == [NoCons EXCEPT !.ge = {a}, !.le = {b}]

Length(a, b) == [NoCons EXCEPT !.minLen = {a}, !.maxLen = {b}]

MinLength(a) == [NoCons EXCEPT !.minLen = {a}]

Pattern(p) == [NoCons EXCEPT !.pattern = p]

----------------------------------------------------------------------------
(* The schemas of the lessons.  A class name carries the lesson it is       *)
(* declared in where several lessons declare a class of the same name.      *)

txt_empty == <<>>

txt_draft == <<"d", "r", "a", "f", "t">>

txt_publish == <<"p", "u", "b", "l", "i", "s", "h">>

txt_archive == <<"a", "r", "c", "h", "i", "v", "e">>

txt_published == <<"p", "u", "b", "l", "i", "s", "h", "e", "d">>

txt_archived == <<"a", "r", "c", "h", "i", "v", "e", "d">>

Fields(cls) ==
  CASE cls = "User02" ->
         << Req("username", TStr), Req("email", TStr), Req("age", TInt) >>
    [] cls = "User04" ->
         << Req("uid", TInt), Req("username", TStr), Req("email", TStr),
            Req("age", TInt), Dflt("bio", TStr, S(txt_empty)),
            Dflt("is_active", TBool, B(TRUE)),
            Dflt("fullname", TOpt(TStr), None),
            Dflt("createdAt", TOpt(TDatetime), None) >>
    [] cls = "User09" ->
         << Cons(Req("uid", TInt), Ge(0)),
            Cons(Req("username", TStr), Length(3, 20)),
            Req("email", TStr),
            Cons(Req("age", TInt), GeLe(18, 60)),
            Dflt("bio", TStr, S(txt_empty)),
            Dflt("is_active", TBool, B(TRUE)),
            Dflt("fullname", TOpt(TStr), None),
            Dflt("createdAt", TOpt(TDatetime), None) >>
    [] cls = "User11" ->
         << Fact("uid", TUuid, "uuid4"),
            [Cons(Req("username", TStr), Length(3, 20))
               EXCEPT !.after = "validate_and_normalize_username"],
            Req("email", TEmail),
            [Dflt("website", TOpt(TUrl), None) EXCEPT !.before = "normalize_website_url"],
            Req("password", TSecret),
            Cons(Req("age", TInt), GeLe(18, 60)),
            Dflt("bio", TStr, S(txt_empty)),
            Dflt("is_active", TBool, B(TRUE)),
            Dflt("fullname", TOpt(TStr), None),
            Dflt("createdAt", TOpt(TDatetime), None) >>
    [] cls = "UserSignUp" ->
         << Req("username", TStr), Req("name", TEmail), Req("password", TStr) >>
    [] cls = "UserF" ->
         << Req("id", TInt), Req("username", TStr), Req("is_active", TBool) >>
    [] cls = "ProductF" ->
         << Req("id", TInt), Req("name", TStr), Req("price", TFloat),
            Dflt("in_stock", TBool, B(TRUE)) >>
    [] cls = "BlogPost08" ->
         << Req("bpid", TInt), Req("title", TStr), Req("content", TStr),
            Req("author_id", TUnion(<<TStr, TInt>>)),
            Dflt("view_count", TInt, I(0)),
            Dflt("is_published", TBool, B(FALSE)),
            Fact("tags", TList(TStr), "list"),
            Fact("createAt", TDatetime, "now"),
            Dflt("status",
                 TLiteral({S(txt_draft), S(txt_publish), S(txt_archive)}),
                 S(txt_draft)) >>
    [] cls = "AddressS" ->
         << Req("street", TStr), Req("city", TStr), Req("zipcode", TStr) >>
    [] cls = "UserS" ->
         << Req("id", TInt), Req("name", TStr), Req("email", TStr),
            Dflt("is_active", TBool, B(TRUE)), Req("createdAt", TDatetime),
            Req("address", TModel("AddressS")),
            Dflt("tags", TList(TStr), L(<<>>)) >>
    [] cls = "UserRegistration12" ->
         << Req("email", TEmail), Req("password", TStr),
            Req("confirm_password", TStr) >>
    [] cls = "UserRegistration14" ->
         << Dflt("first_name", TStr, S(txt_empty)),
            Dflt("last_name", TStr, S(txt_empty)),
            Dflt("follower_count", TInt, I(0)),
            Req("email", TEmail), Req("password", TStr),
            Req("confirm_password", TStr) >>
    [] cls = "SignUpData" ->
         << Req("password", TStr), Req("confirm_password", TStr) >>
    [] cls = "Employee" ->
         << Req("id", TInt), Cons(Req("name", TStr), Length(3, 50)),
            Dflt("department", TOpt(TStr), S(<<"G", "e", "n", "e", "r", "a", "l">>)),
            Cons(Req("salary", TFloat), Ge(1000000)) >>
    [] cls = "Booking" ->
         << Req("user_id", TInt), Req("room_id", TInt),
            Cons(Req("nights", TInt), Ge(1)), Req("rate_per_night", TFloat) >>
    [] cls = "ProductB" ->
         << Req("price", TFloat), Req("quantity", TInt) >>
    [] cls = "User15" ->
         << [Fact("uid", TUuid, "uuid4") EXCEPT !.alias = "id"],
            [Cons(Req("username", TStr), Length(3, 20))
               EXCEPT !.after = "validate_username"],
            Req("email", TEmail), Req("password", TSecret),
            [Dflt("website", TOpt(TUrl), None) EXCEPT !.before = "add_https"],
            Cons(Req("age", TInt), GeLe(13, 130)),
            Dflt("verified_at", TOpt(TDatetime), None),
            Dflt("bio", TStr, S(txt_empty)),
            Dflt("is_active", TBool, B(TRUE)),
            Dflt("first_name", TStr, S(txt_empty)),
            Dflt("last_name", TStr, S(txt_empty)),
            Dflt("follower_count", TInt, I(0)) >>
    [] cls = "Comment15" ->
         << Req("content", TStr), Req("author_email", TEmail),
            Dflt("likes", TInt, I(0)) >>
    [] cls = "BlogPost15" ->
         << Cons(Req("title", TStr), Length(1, 200)),
            Cons(Req("content", TStr), MinLength(10)),
            Req("author", TModel("User15")),
            Dflt("view_count", TInt, I(0)),
            Dflt("is_published", TBool, B(FALSE)),
            Fact("tags", TList(TStr), "list"),
            Fact("create_at", TDatetime, "now"),
            Dflt("status",
                 TLiteral({S(txt_draft), S(txt_published), S(txt_archived)}),
                 S(txt_draft)),
            Cons(Req("slug", TStr), Pattern("slug")),
            Fact("comments", TList(TModel("Comment15")), "list") >>
    [] cls = "Address" ->
         << Req("street", TStr), Req("city", TStr), Req("postal_code", TStr) >>
    [] cls = "UserN" ->
         << Req("id", TInt), Req("name", TStr), Req("address", TModel("Address")) >>
    [] cls = "Comment" ->
         << Req("id", TInt), Req("content", TStr),
            Dflt("replies", TOpt(TList(TModel("Comment"))), None) >>
    [] cls = "Lesson" ->
         << Req("lesson_id", TInt), Req("topic", TStr) >>
    [] cls = "Module" ->
         << Req("module_id", TInt), Req("name", TStr),
            Req("lessons", TList(TModel("Lesson"))) >>
    [] cls = "Course" ->
         << Req("course_id", TInt), Req("title", TStr),
            Req("modules", TList(TModel("Module"))) >>

FieldNames(cls) == {Fields(cls)[i].name : i \in 1..Len(Fields(cls))}

(* model_config: only the User of lesson 15 sets one that affects validation *)
Config(cls) ==
  IF cls = "User15"
  THEN [strict |-> TRUE, extra |-> "allow", frozen |-> TRUE, populate_by_name |-> TRUE,
        validate_assignment |-> TRUE]
  ELSE [strict |-> FALSE, extra |-> "ignore", frozen |-> FALSE,
        populate_by_name |-> FALSE, validate_assignment |-> FALSE]

(* @model_validator(mode="after") methods, in declaration order *)
ModelValidators(cls) ==
  CASE cls \in {"UserRegistration12", "UserRegistration14"} -> <<"passwords_match">>
    [] cls = "SignUpData" -> <<"password_match">>
    [] OTHER -> <<>>

(* @computed_field properties, in declaration order *)
ComputedFields(cls) ==
  CASE cls \in {"UserRegistration14", "User15"} -> <<"display_name", "is_influencer">>
    [] cls = "Booking" -> <<"total_amount">>
    [] cls = "ProductB" -> <<"total_price">>
    [] OTHER -> <<>>

----------------------------------------------------------------------------
(* Validators and computed fields declared by the lessons *)

txt_http == <<"h", "t", "t", "p", ":", "/", "/">>

txt_https == <<"h", "t", "t", "p", "s", ":", "/", "/">>

txt_space == <<" ">>

Truthy(x) ==
  CASE x.t = "none" -> FALSE
    [] x.t = "bool" -> x.v
    [] x.t \in {"int", "float"} -> x.v # 0
    [] x.t \in {"str", "list"} -> Len(x.v) > 0
    [] OTHER -> TRUE

(* add_https / normalize_website_url: `v and not v.startswith((...))`.     *)
(* A truthy value that is no text has no startswith: the call raises        *)
(* AttributeError, which is not a validation error.                         *)
add_https(v) ==
  IF ~Truthy(v) THEN [fault |-> "", v |-> v]
  ELSE IF v.t # "str" THEN [fault |-> "AttributeError", v |-> v]
  ELSE IF ~StartsWith(v.v, txt_http) /\ ~StartsWith(v.v, txt_https)
       THEN [fault |-> "", v |-> S(txt_https \o v.v)]
  ELSE [fault |-> "", v |-> v]

(* As ApplyBefore, but no before-validator is ever run *)
ApplyBeforeSkipped(name, v) == [fault |-> "", v |-> v]

ApplyBefore(name, v) ==
  CASE name \in {"add_https", "normalize_website_url"} -> add_https(v)
    [] OTHER -> [fault |-> "", v |-> v]

(* str.isalnum(): non-empty and every character alphanumeric *)
IsAlnum(s) == Len(s) > 0 /\ \A i \in 1..Len(s) : IsAlnumChar(s[i])

Without(s, c) == SelectSeq(s, LAMBDA ch : ch # c)

(* As validate_username, but the value is returned as it came *)
validate_username_unchanged(v) == Ok(v)

validate_username(v) ==
  IF ~IsAlnum(Without(v.v, "_")) THEN Fail("value_error") ELSE Ok(S(LowerText(v.v)))

ApplyAfter(name, v) ==
  CASE name \in {"validate_username", "validate_and_normalize_username"} ->
         validate_username(v)
    [] OTHER -> Ok(v)

(* As passwords_match, but the two are never compared *)
passwords_unchecked(fields) == TRUE

(* passwords_match / password_match: raise ValueError unless both are equal *)
passwords_match(fields) == fields["password"].v = fields["confirm_password"].v

RunModelValidator(name, fields) ==
  CASE name \in {"passwords_match", "password_match"} -> passwords_match(fields)

SplitAt(s, c) ==
  LET at == {i \in 1..Len(s) : s[i] = c}
  IN IF at = {} THEN s
     ELSE SubSeq(s, 1, (CHOOSE i \in at : \A j \in at : i <= j) - 1)

display_name(cls, fields) ==
  IF Len(fields["first_name"].v) > 0 /\ Len(fields["last_name"].v) > 0
  THEN S(fields["first_name"].v \o txt_space \o fields["last_name"].v)
  ELSE IF cls = "UserRegistration14" THEN S(SplitAt(fields["email"].v, "@"))
  ELSE fields["username"]

InfluencerThreshold == 10000

is_influencer(fields) == B(fields["follower_count"].v >= InfluencerThreshold)

(* As total_amount, but the two are added *)
total_amount_sum(fields) == F(fields["nights"].v + fields["rate_per_night"].v)

total_amount(fields) == F(fields["nights"].v * fields["rate_per_night"].v)

total_price(fields) == F(fields["price"].v * fields["quantity"].v)

ComputedValue(cls, name, fields) ==
  CASE name = "display_name" -> display_name(cls, fields)
    [] name = "is_influencer" -> is_influencer(fields)
    [] name = "total_amount" -> total_amount(fields)
    [] name = "total_price" -> total_price(fields)

----------------------------------------------------------------------------
(* The validation pass *)

(* A violation: where (field path), what (kind), and the stage that found it *)
Violation(loc, kind, stage) == [loc |-> loc, kind |-> kind, stage |-> stage]

Good(v) == [ok |-> TRUE, v |-> v, errs |-> <<>>, fault |-> "", trace |-> <<>>]

Bad(kind) ==
  [ok |-> FALSE, v |-> None, errs |-> <<Violation(<<>>, kind, "field")>>,
   fault |-> "", trace |-> <<>>]

Faulted(f, trace) ==
  [ok |-> FALSE, v |-> None, errs |-> <<>>, fault |-> f, trace |-> trace]

Lift(r) == IF r.ok THEN Good(r.v) ELSE Bad(r.kind)

Prefix(errs, seg) ==
  [i \in 1..Len(errs) |-> [errs[i] EXCEPT !.loc = <<seg>> \o errs[i].loc]]

IdxNames == <<"0", "1", "2", "3", "4">>

IdxStr(i) == IdxNames[i + 1]

EmailOk(s) ==
  LET at == {i \in 1..Len(s) : s[i] = "@"}
  IN /\ Cardinality(at) = 1
     /\ LET a == CHOOSE i \in at : TRUE
            dom == SubSeq(s, a + 1, Len(s))
        IN /\ a > 1
           /\ Len(dom) >= 3
           /\ \E i \in 1..Len(dom) : dom[i] = "."
           /\ dom[1] # "." /\ dom[Len(dom)] # "."
           /\ \A i \in 1..(Len(dom) - 1) : ~(dom[i] = "." /\ dom[i + 1] = ".")

EmailValidate(x) ==
  IF x.t # "str" THEN Fail("string_type")
  ELSE IF EmailOk(x.v) THEN Ok(x) ELSE Fail("value_error")

UrlValidate(x) ==
  IF x.t = "url" THEN Ok(x)
  ELSE IF x.t # "str" THEN Fail("url_type")
  ELSE IF \/ StartsWith(x.v, txt_http) /\ Len(x.v) > Len(txt_http)
          \/ StartsWith(x.v, txt_https) /\ Len(x.v) > Len(txt_https)
       THEN Ok([t |-> "url", v |-> x.v])
  ELSE Fail("url_parsing")

SecretValidate(x) ==
  IF x.t = "secret" THEN Ok(x)
  ELSE IF x.t = "str" THEN Ok([t |-> "secret", v |-> x.v])
  ELSE Fail("string_type")

HexChars == Digits \cup {"a", "b", "c", "d", "e", "f", "A", "B", "C", "D", "E", "F"}

IsUuidText(s) ==
  /\ Len(s) = 36
  /\ \A i \in 1..Len(s) :
       IF i \in {9, 14, 19, 24} THEN s[i] = "-" ELSE s[i] \in HexChars

(* A UUID instance always passes; a text only outside strict Python input *)
UuidValidate(x, strict, mode) ==
  IF x.t = "uuid" THEN Ok(x)
  ELSE IF strict /\ mode = "python" THEN Fail("is_instance_of")
  ELSE IF x.t = "str"
       THEN IF IsUuidText(x.v) THEN Ok([t |-> "uuid", v |-> x.v])
            ELSE Fail("uuid_parsing")
  ELSE Fail("uuid_type")

(* Texts and numbers are never drawn as input of a datetime field here *)
DatetimeValidate(x) ==
  IF x.t = "datetime" THEN Ok(x) ELSE Fail("datetime_type")

LiteralValidate(ty, x) ==
  IF \E l \in ty.vals : l.t = x.t /\ l.v = x.v THEN Ok(x) ELSE Fail("literal_error")

ScalarValidate(ty, x, strict, mode) ==
  CASE ty.k = "int" -> IntValidate(x, strict)
    [] ty.k = "float" -> FloatValidate(x, strict)
    [] ty.k = "bool" -> BoolValidate(x, strict)
    [] ty.k = "str" -> StrValidate(x, strict)
    [] ty.k = "email" -> EmailValidate(x)
    [] ty.k = "url" -> UrlValidate(x)
    [] ty.k = "secret" -> SecretValidate(x)
    [] ty.k = "uuid" -> UuidValidate(x, strict, mode)
    [] ty.k = "datetime" -> DatetimeValidate(x)
    [] ty.k = "literal" -> LiteralValidate(ty, x)

MatchesPattern(p, s) ==
  CASE p = "slug" ->
         /\ Len(s) > 0
         /\ \A i \in 1..Len(s) :
              \/ s[i] \in Digits \/ s[i] = "-"
              \/ \E j \in 1..Len(Lower) : Lower[j] = s[i]

(* As CheckCons, but no constraint is ever checked *)
CheckConsSkipped(c, v) == ""

(* As CheckCons, but only the bounds of a number are checked *)
CheckConsBoundsOnly(c, v) ==
  IF v.t = "int" /\ (\E n \in c.le : v.v > n) THEN "less_than_equal"
  ELSE IF v.t = "int" /\ (\E n \in c.ge : v.v < n) THEN "greater_than_equal"
  ELSE ""

(* As CheckCons, but a value equal to a bound is outside it *)
CheckConsExclusive(c, v) ==
  IF v.t \in {"int", "float"}
  THEN IF \E n \in c.le : v.v >= n THEN "less_than_equal"
       ELSE IF \E n \in c.ge : v.v <= n THEN "greater_than_equal"
       ELSE ""
  ELSE IF v.t = "str"
  THEN IF \E n \in c.minLen : Len(v.v) <= n THEN "string_too_short"
       ELSE IF \E n \in c.maxLen : Len(v.v) >= n THEN "string_too_long"
       ELSE ""
  ELSE ""

(* The first constraint the value fails, in the order the library checks *)
CheckCons(c, v) ==
  IF v.t \in {"int", "float"}
  THEN IF \E n \in c.le : v.v > n THEN "less_than_equal"
       ELSE IF \E n \in c.ge : v.v < n THEN "greater_than_equal"
       ELSE ""
  ELSE IF v.t = "str"
  THEN IF \E n \in c.minLen : Len(v.v) < n THEN "string_too_short"
       ELSE IF \E n \in c.maxLen : Len(v.v) > n THEN "string_too_long"
       ELSE IF c.pattern # "" /\ ~MatchesPattern(c.pattern, v.v)
            THEN "string_pattern_mismatch"
       ELSE ""
  ELSE ""

(* As FactoryValue, but the producer is called once and its result kept *)
FactoryValueReused(f, env) ==
  CASE f = "list" -> L(<<>>)
    [] f = "now" -> [t |-> "datetime", v |-> 0]
    [] f = "uuid4" -> [t |-> "uuid", v |-> <<"uuid4", IdxStr(0)>>]

FactoryValue(f, env) ==
  CASE f = "list" -> L(<<>>)
    [] f = "now" -> [t |-> "datetime", v |-> env.now]
    [] f = "uuid4" -> [t |-> "uuid", v |-> <<"uuid4", IdxStr(env.now)>>]

(* Bind(x, F) is F(x) with x evaluated once *)
Bind(x, Op(_)) == CHOOSE y \in {Op(v) : v \in {x}} : TRUE

RECURSIVE ValidateType(_, _, _, _)
RECURSIVE ValidateItems(_, _, _, _, _)
RECURSIVE ValidateUnion(_, _, _, _, _)
RECURSIVE ValidateModel(_, _, _)
RECURSIVE FieldsFrom(_, _, _, _)
RECURSIVE FieldsFromInKeyOrder(_, _, _, _)

FieldResult(ok, v, errs, fault, key, defaulted, trace) ==
  [ok |-> ok, v |-> v, errs |-> errs, fault |-> fault, key |-> key,
   defaulted |-> defaulted, trace |-> trace]

(* A supplied value after its before-validator: the type, then the first   *)
(* failing constraint, then the after-validator                            *)
CheckSupplied(cls, fs, key, r, bt) ==
  IF r.fault # "" THEN FieldResult(FALSE, None, <<>>, r.fault, key, FALSE, bt \o r.trace)
  ELSE IF ~r.ok
  THEN FieldResult(FALSE, None, Prefix(r.errs, fs.name), "", key, FALSE, bt \o r.trace)
  ELSE IF CheckCons(fs.cons, r.v) # ""
  THEN FieldResult(FALSE, None,
                   <<Violation(<<fs.name>>, CheckCons(fs.cons, r.v), "field")>>,
                   "", key, FALSE, bt \o r.trace)
  ELSE IF fs.after = ""
  THEN FieldResult(TRUE, r.v, <<>>, "", key, FALSE, bt \o r.trace)
  ELSE LET a == ApplyAfter(fs.after, r.v)
           tr == bt \o r.trace \o <<<<"after", cls, fs.after>>>>
       IN IF a.ok THEN FieldResult(TRUE, a.v, <<>>, "", key, FALSE, tr)
          ELSE FieldResult(FALSE, None, <<Violation(<<fs.name>>, a.kind, "field")>>,
                           "", key, FALSE, tr)

(* As Omitted, but an omitted required field is silently resolved to None *)
OmittedResolvedToNone(fs, env, trace) ==
  FieldResult(TRUE,
              IF fs.factory # "" THEN FactoryValue(fs.factory, env) ELSE fs.default,
              <<>>, "", "", TRUE, trace)

(* As Omitted, but every omitted field is reported missing, default or not *)
OmittedAlwaysMissing(fs, env, trace) ==
  FieldResult(FALSE, None, <<Violation(<<fs.name>>, "missing", "field")>>,
              "", "", FALSE, trace)

(* A field the raw input leaves out: reported missing when it is required, *)
(* else resolved to its default (the factory's value when it has one)       *)
Omitted(fs, env, trace) ==
  IF fs.required
  THEN FieldResult(FALSE, None, <<Violation(<<fs.name>>, "missing", "field")>>,
                   "", "", FALSE, trace)
  ELSE FieldResult(TRUE,
                   IF fs.factory # "" THEN FactoryValue(fs.factory, env)
                   ELSE fs.default,
                   <<>>, "", "", TRUE, trace)

(* One declared field against the raw mapping: look the key up (alias      *)
(* first, the name too under populate_by_name); a supplied value goes       *)
(* through the before-validator, the type, the constraints and the          *)
(* after-validator; an omitted one takes its default or is reported missing *)
ValidateField(cls, fs, raw, env) ==
  LET cfg == Config(cls)
      key == IF fs.alias \in DOMAIN raw THEN fs.alias
             ELSE IF cfg.populate_by_name /\ fs.name \in DOMAIN raw THEN fs.name
             ELSE ""
      ev == <<"field", cls, fs.name>>
      bt == IF fs.before = "" THEN <<ev>> ELSE <<ev, <<"before", cls, fs.before>>>>
  IN IF key = "" THEN Omitted(fs, env, <<ev>>)
     ELSE LET b == ApplyBefore(fs.before, raw[key])
          IN IF b.fault # ""
             THEN FieldResult(FALSE, None, <<>>, b.fault, key, FALSE, bt)
             ELSE Bind(ValidateType(fs.ty, b.v, cfg.strict, env),
                       LAMBDA r : CheckSupplied(cls, fs, key, r, bt))

NoFields ==
  [vals |-> <<>>, errs |-> <<>>, fault |-> "", trace |-> <<>>, defaulted |-> {},
   used |-> {}]

(* As JoinField, but the violations of the first failing field only *)
JoinFieldFirstFailure(fs, fr, rest) ==
  [vals |-> IF fr.ok THEN (fs.name :> fr.v) @@ rest.vals ELSE rest.vals,
   errs |-> IF fr.errs # <<>> THEN fr.errs ELSE rest.errs,
   fault |-> rest.fault,
   trace |-> fr.trace \o rest.trace,
   defaulted |-> (IF fr.defaulted THEN {fs.name} ELSE {}) \cup rest.defaulted,
   used |-> (IF fr.key # "" THEN {fr.key} ELSE {}) \cup rest.used]

(* The outcome of one field joined with the outcome of the fields after it *)
JoinField(fs, fr, rest) ==
  [vals |-> IF fr.ok THEN (fs.name :> fr.v) @@ rest.vals ELSE rest.vals,
   errs |-> fr.errs \o rest.errs,
   fault |-> rest.fault,
   trace |-> fr.trace \o rest.trace,
   defaulted |-> (IF fr.defaulted THEN {fs.name} ELSE {}) \cup rest.defaulted,
   used |-> (IF fr.key # "" THEN {fr.key} ELSE {}) \cup rest.used]

(* As FieldsFrom, but the fields are gone through in the order in which the *)
(* raw mapping supplies them, the omitted ones after them                    *)
FieldsFromInKeyOrder(cls, raw, i, env) ==
  LET fs == Fields(cls)
      keys == env.keys
      pos(f) == IF \E k \in 1..Len(keys) : keys[k] = f.alias
                THEN CHOOSE k \in 1..Len(keys) : keys[k] = f.alias
                ELSE Len(keys) + 1
      rank(j) == Cardinality({h \in 1..Len(fs) :
                    pos(fs[h]) < pos(fs[j]) \/ (pos(fs[h]) = pos(fs[j]) /\ h < j)})
      visit == [r \in 1..Len(fs) |-> fs[CHOOSE j \in 1..Len(fs) : rank(j) = r - 1]]
  IN IF i > Len(fs) THEN NoFields
     ELSE Bind(ValidateField(cls, visit[i], raw, env),
               LAMBDA fr :
                 Bind(FieldsFromInKeyOrder(cls, raw, i + 1, env),
                      LAMBDA rest : JoinField(visit[i], fr, rest)))

(* Every field in declaration order; a failing field is recorded and the   *)
(* pass goes on to the next one.  Only a fault (an exception that is no     *)
(* validation error) ends the pass at once.                                 *)
FieldsFrom(cls, raw, i, env) ==
  IF i > Len(Fields(cls)) THEN NoFields
  ELSE Bind(ValidateField(cls, Fields(cls)[i], raw, env),
            LAMBDA fr :
              IF fr.fault # ""
              THEN [NoFields EXCEPT !.fault = fr.fault, !.trace = fr.trace]
              ELSE Bind(FieldsFrom(cls, raw, i + 1, env),
                        LAMBDA rest :
                          IF rest.fault # ""
                          THEN [rest EXCEPT !.trace = fr.trace \o rest.trace]
                          ELSE JoinField(Fields(cls)[i], fr, rest)))

(* As FirstFailing, but the first model validator always raises *)
FirstFailingAlways(cls, fields) == IF ModelValidators(cls) = <<>> THEN 0 ELSE 1

(* The after-mode model validators, in order, up to the first that raises *)
FirstFailing(cls, fields) ==
  LET mvs == ModelValidators(cls)
      bad == {i \in 1..Len(mvs) : ~RunModelValidator(mvs[i], fields)}
  IN IF bad = {} THEN 0 ELSE CHOOSE i \in bad : \A j \in bad : i <= j

ModelStage(cls, fields) ==
  LET mvs == ModelValidators(cls)
      ff == FirstFailing(cls, fields)
      ran == IF ff = 0 THEN Len(mvs) ELSE ff
  IN [ok |-> ff = 0,
      trace |-> [i \in 1..ran |-> <<"model", cls, mvs[i]>>]]

(* As FinishModel, but the model validators also run after a field failed, *)
(* whenever the fields they read did pass                                   *)
FinishModelRegardless(cls, raw, fr) ==
  IF fr.fault # "" THEN Faulted(fr.fault, fr.trace)
  ELSE LET ms == ModelStage(cls, fr.vals)
           extras == DOMAIN raw \ fr.used
           kept == IF Config(cls).extra = "allow" THEN [k \in extras |-> raw[k]]
                   ELSE <<>>
       IN IF fr.errs # <<>>
          THEN IF /\ ModelValidators(cls) # <<>>
                  /\ {"password", "confirm_password"} \subseteq DOMAIN fr.vals
               THEN [ok |-> FALSE, v |-> None, fault |-> "",
                     errs |-> fr.errs \o (IF ms.ok THEN <<>>
                                          ELSE <<Violation(<<>>, "value_error", "model")>>),
                     trace |-> fr.trace \o ms.trace]
               ELSE [ok |-> FALSE, v |-> None, errs |-> fr.errs, fault |-> "",
                     trace |-> fr.trace]
          ELSE IF ~ms.ok
          THEN [ok |-> FALSE, v |-> None, fault |-> "",
                errs |-> <<Violation(<<>>, "value_error", "model")>>,
                trace |-> fr.trace \o ms.trace]
          ELSE [ok |-> TRUE, fault |-> "", errs |-> <<>>,
                v |-> [t |-> "model",
                       v |-> [cls |-> cls, fields |-> fr.vals, extra |-> kept,
                              defaulted |-> fr.defaulted]],
                trace |-> fr.trace \o ms.trace]

(* After the fields: nothing more when a field failed; else the model      *)
(* validators, and the record when they pass                               *)
(* As FinishModel, but no class keeps the keys it does not declare *)
FinishModelExtrasDropped(cls, raw, fr) ==
  IF fr.fault # "" THEN Faulted(fr.fault, fr.trace)
  ELSE IF fr.errs # <<>>
  THEN [ok |-> FALSE, v |-> None, errs |-> fr.errs, fault |-> "", trace |-> fr.trace]
  ELSE LET ms == ModelStage(cls, fr.vals)
       IN IF ~ms.ok
          THEN [ok |-> FALSE, v |-> None, fault |-> "",
                errs |-> <<Violation(<<>>, "value_error", "model")>>,
                trace |-> fr.trace \o ms.trace]
          ELSE [ok |-> TRUE, fault |-> "", errs |-> <<>>,
                v |-> [t |-> "model",
                       v |-> [cls |-> cls, fields |-> fr.vals, extra |-> <<>>,
                              defaulted |-> fr.defaulted]],
                trace |-> fr.trace \o ms.trace]

FinishModel(cls, raw, fr) ==
  IF fr.fault # "" THEN Faulted(fr.fault, fr.trace)
  ELSE IF fr.errs # <<>>
  THEN [ok |-> FALSE, v |-> None, errs |-> fr.errs, fault |-> "", trace |-> fr.trace]
  ELSE LET ms == ModelStage(cls, fr.vals)
           extras == DOMAIN raw \ fr.used
           kept == IF Config(cls).extra = "allow" THEN [k \in extras |-> raw[k]]
                   ELSE <<>>
       IN IF ~ms.ok
          THEN [ok |-> FALSE, v |-> None, fault |-> "",
                errs |-> <<Violation(<<>>, "value_error", "model")>>,
                trace |-> fr.trace \o ms.trace]
          ELSE [ok |-> TRUE, fault |-> "", errs |-> <<>>,
                v |-> [t |-> "model",
                       v |-> [cls |-> cls, fields |-> fr.vals, extra |-> kept,
                              defaulted |-> fr.defaulted]],
                trace |-> fr.trace \o ms.trace]

ValidateModel(cls, raw, env) ==
  Bind(FieldsFrom(cls, raw, 1, env), LAMBDA fr : FinishModel(cls, raw, fr))

(* As JoinItem, but the elements after a failing one are not reported *)
JoinItemFirstFailure(i, r, rest) ==
  IF rest.fault # "" THEN Faulted(rest.fault, r.trace \o rest.trace)
  ELSE [ok |-> r.ok /\ rest.ok,
        v |-> IF r.ok /\ rest.ok THEN L(<<r.v>> \o rest.v.v) ELSE None,
        errs |-> IF r.ok THEN rest.errs ELSE Prefix(r.errs, IdxStr(i - 1)),
        fault |-> "",
        trace |-> r.trace \o rest.trace]

(* As JoinItem, but an element's violations are not put under its index *)
JoinItemNoIndex(i, r, rest) ==
  IF rest.fault # "" THEN Faulted(rest.fault, r.trace \o rest.trace)
  ELSE [ok |-> r.ok /\ rest.ok,
        v |-> IF r.ok /\ rest.ok THEN L(<<r.v>> \o rest.v.v) ELSE None,
        errs |-> r.errs \o rest.errs,
        fault |-> "",
        trace |-> r.trace \o rest.trace]

JoinItem(i, r, rest) ==
  IF rest.fault # "" THEN Faulted(rest.fault, r.trace \o rest.trace)
  ELSE [ok |-> r.ok /\ rest.ok,
        v |-> IF r.ok /\ rest.ok THEN L(<<r.v>> \o rest.v.v) ELSE None,
        errs |-> Prefix(r.errs, IdxStr(i - 1)) \o rest.errs,
        fault |-> "",
        trace |-> r.trace \o rest.trace]

(* The elements of a list in order; a failing element is reported under    *)
(* its index and the elements after it are still validated                  *)
ValidateItems(ty, xs, i, strict, env) ==
  IF i > Len(xs) THEN Good(L(<<>>))
  ELSE Bind(ValidateType(ty, xs[i], strict, env),
            LAMBDA r :
              IF r.fault # "" THEN r
              ELSE Bind(ValidateItems(ty, xs, i + 1, strict, env),
                        LAMBDA rest : JoinItem(i, r, rest)))

(* A union takes the first member that accepts the value as it is, then    *)
(* the first that accepts it after conversion; else every member's error.   *)
ValidateUnion(tys, x, i, strict, env) ==
  IF i > Len(tys)
  THEN [ok |-> FALSE, v |-> None, errs |-> <<>>, fault |-> "", trace |-> <<>>]
  ELSE Bind(ValidateType(tys[i], x, strict, env),
            LAMBDA r :
              IF r.ok \/ r.fault # "" THEN r
              ELSE Bind(ValidateUnion(tys, x, i + 1, strict, env),
                        LAMBDA rest :
                          IF rest.ok \/ rest.fault # "" THEN rest
                          ELSE [rest EXCEPT
                                  !.errs = Prefix(r.errs, tys[i].k) \o rest.errs]))

ValidateType(ty, x, strict, env) ==
  CASE ty.k = "optional" ->
         IF x.t = "none" THEN Good(None) ELSE ValidateType(ty.of[1], x, strict, env)
    [] ty.k = "list" ->
         IF x.t = "list" THEN ValidateItems(ty.of[1], x.v, 1, strict, env)
         ELSE Bad("list_type")
    [] ty.k = "union" ->
         Bind(ValidateUnion(ty.of, x, 1, TRUE, env),
              LAMBDA exact :
                IF exact.ok THEN exact ELSE ValidateUnion(ty.of, x, 1, strict, env))
    [] ty.k = "model" ->
         IF x.t = "dict" THEN ValidateModel(ty.cls, x.v, env)
         ELSE IF x.t = "model" /\ x.v.cls = ty.cls THEN Good(x)
         ELSE Bad("model_type")
    [] OTHER -> Lift(ScalarValidate(ty, x, strict, env.mode))

(* As Validate, but the class remembers it was used: calls after the first *)
(* are refused                                                              *)
ValidateFirstCallOnly(cls, raw, env) ==
  IF env.now = 0 THEN ValidateModel(cls, raw, env)
  ELSE [ok |-> FALSE, v |-> None, fault |-> "", trace |-> <<>>,
        errs |-> <<Violation(<<>>, "value_error", "model")>>]

(* Constructing a record of class cls from raw: the outcome of one call *)
Validate(cls, raw, env) == ValidateModel(cls, raw, env)

----------------------------------------------------------------------------
(* Records as objects.  A list held by a record is a cell of the heap, so   *)
(* that two records either share a list or do not.  Cell 1 is the list      *)
(* object written as the default of User.tags in the serializers lesson.    *)

ClassDefaultCell(cls, name) == IF cls = "UserS" /\ name = "tags" THEN 1 ELSE 0

(* As CopyDefault, but the record is handed the class's own list object *)
ShareDefault(cell, h) == [ref |-> cell, heap |-> h]

(* The library copies a default that is a mutable object for every record *)
CopyDefault(cell, h) == [ref |-> Len(h) + 1, heap |-> Append(h, h[cell])]

NewCell(content, h) == [ref |-> Len(h) + 1, heap |-> Append(h, content)]

IsTextList(ty) == ty.k = "list" /\ ty.of[1].k = "str"

RECURSIVE Materialize(_, _, _, _)
Materialize(cls, inst, i, h) ==
  IF i > Len(Fields(cls)) THEN [fields |-> inst.fields, heap |-> h]
  ELSE LET fs == Fields(cls)[i]
       IN IF ~IsTextList(fs.ty) THEN Materialize(cls, inst, i + 1, h)
          ELSE LET a == IF fs.name \in inst.defaulted
                           /\ ClassDefaultCell(cls, fs.name) # 0
                        THEN CopyDefault(ClassDefaultCell(cls, fs.name), h)
                        ELSE NewCell(inst.fields[fs.name].v, h)
               IN Bind(Materialize(cls, inst, i + 1, a.heap),
                       LAMBDA rest :
                         [fields |-> (fs.name :> Ref(a.ref)) @@ rest.fields,
                          heap |-> rest.heap])

Deref(v, h) == IF v.t = "ref" THEN L(h[v.v]) ELSE v

(* As DumpOf, but a captured extra wins over a computed field of its name *)
DumpExtrasFirst(rec, h) ==
  LET cf == ComputedFields(rec.cls)
      computed == [n \in {cf[i] : i \in 1..Len(cf)} |->
                     ComputedValue(rec.cls, n, rec.fields)]
      plain == [n \in DOMAIN rec.fields |-> Deref(rec.fields[n], h)]
  IN rec.extra @@ plain @@ computed

(* model_dump(): declared fields, captured extras, then the computed fields *)
DumpOf(rec, h) ==
  LET cf == ComputedFields(rec.cls)
      computed == [n \in {cf[i] : i \in 1..Len(cf)} |->
                     ComputedValue(rec.cls, n, rec.fields)]
      plain == [n \in DOMAIN rec.fields |-> Deref(rec.fields[n], h)]
  IN computed @@ plain @@ rec.extra

NoCall == [cls |-> "", raw |-> <<>>, mode |-> ""]

NoOut == [ok |-> FALSE, v |-> None, errs |-> <<>>, fault |-> "", trace |-> <<>>]

NoDump == [rec |-> 0, data |-> <<>>]

(* No assignment and no copy made yet *)
NoOp == [kind |-> "", rec |-> 0, res |-> 0, upd |-> <<>>, err |-> ""]

(* The order in which the raw mapping of a call holds its keys (a dict      *)
(* keeps them in the order written), for the calls written in more than one *)
(* order                                                                     *)
KeyOrder(c) == IF "keys" \in DOMAIN c THEN c.keys ELSE <<>>

IdleFlight ==
  [st |-> "idle", cls |-> "", raw |-> <<>>, mode |-> "", now |-> 0, i |-> 0,
   frs |-> <<>>, out |-> NoOut]

NoFlights == [k \in {1, 2} |-> IdleFlight]

(* The next statement of the script builds a record: the whole validation   *)
(* pass, and on success the new object with lists of its own.               *)
Create ==
  /\ script # <<>>
  /\ call' = Head(script)
  /\ out' = Validate(call'.cls, call'.raw,
                     [now |-> clock, mode |-> call'.mode, keys |-> KeyOrder(call')])
  /\ IF out'.ok
     THEN \E m \in {Materialize(call'.cls, out'.v.v, 1, heap)} :
            /\ records' = Append(records, [cls |-> call'.cls, fields |-> m.fields,
                                           extra |-> out'.v.v.extra])
            /\ heap' = m.heap
     ELSE UNCHANGED <<records, heap>>
  /\ script' = Tail(script)
  /\ clock' = clock + 1
  /\ dump' = NoDump
  /\ UNCHANGED flights
  /\ UNCHANGED last

(* print(record) / record.model_dump() of a record built earlier *)
ModelDump ==
  /\ \E i \in 1..Len(records) :
       /\ dump.rec = 0
       /\ dump' = [rec |-> i, data |-> DumpOf(records[i], heap)]
  /\ UNCHANGED <<script, call, out, records, heap, clock, flights>>
  /\ UNCHANGED last

----------------------------------------------------------------------------
(* Sample texts drawn by the inputs below *)

Txt ==
  [ john |-> <<"J", "o", "h", "n", "C", "e", "n", "a">>,
    mail |-> <<"j", "@", "0", "0", "7", ".", "c", "o", "m">>,
    nomail |-> <<"j", "0", "0", "7", ".", "c", "o", "m">>,
    WWE |-> <<"W", "W", "E">>,
    n40 |-> <<"4", "0">>,
    n101 |-> <<"1", "0", "1">>,
    n101a |-> <<"1", "0", "1", "a">>,
    test |-> <<"t", "e", "s", "t">>,
    n10X |-> <<"1", "0", "X">>,
    n2 |-> <<"2">>,
    True |-> <<"T", "r", "u", "e">>,
    true |-> <<"t", "r", "u", "e">>,
    Saach |-> <<"S", "a", "a", "c", "h">>,
    maybe |-> <<"m", "a", "y", "b", "e">>,
    price |-> <<"4", "9", "9", ".", "5", "0">>,
    free |-> <<"f", "r", "e", "e">>,
    rate |-> <<"1", "9", "9", "9", ".", "9", "9">>,
    pw |-> <<"s", "e", "c", "r", "e", "t", "1", "2", "3">>,
    pw2 |-> <<"s", "e", "c", "r", "e", "t">>,
    James |-> <<"J", "a", "m", "e", "s">>,
    Bond |-> <<"B", "o", "n", "d">>,
    uname |-> <<"B", "o", "n", "d", "_", "0", "0", "7">>,
    badname |-> <<"j", "-", "7">>,
    shortname |-> <<"j", "7">>,
    notes |-> <<"n", "o", "t", "e", "s">>,
    nan |-> <<"n", "o", "t", "-", "a", "-", "n", "u", "m", "b", "e", "r">>,
    title |-> <<"D", "e", "e", "p", " ", "D", "i", "v", "e">>,
    content |-> <<"P", "y", "d", "a", "n", "t", "i", "c", " ", "v", "2", ".">>,
    slugok |-> <<"d", "e", "e", "p", "-", "d", "i", "v", "e">>,
    street |-> <<"K", "i", "n", "g", "S", "t">>,
    city |-> <<"A", "h", "m", "e", "d", "a", "b", "a", "d">>,
    zip |-> <<"3", "8", "0", "0", "0", "1">>,
    topic |-> <<"I", "n", "t", "r", "o">>,
    tag |-> <<"p", "r", "e", "m", "i", "u", "m">>,
    tag2 |-> <<"s", "u", "b", "s", "c", "r", "i", "b", "e", "r">>,
    site |-> <<"0", "0", "7", ".", "c", "o", "m">> ]

(* Raw inputs: every key of opts is left out or takes one of its values;  *)
(* the keys of base are always supplied.                                   *)
RECURSIVE Choices(_, _)
Choices(K, opts) ==
  IF K = {} THEN {<<>>}
  ELSE LET k == CHOOSE x \in K : TRUE
       IN Bind(Choices(K \ {k}, opts),
               LAMBDA rest : rest \cup {(k :> v) @@ r : v \in opts[k], r \in rest})

RawInputs(base, opts) == {c @@ base : c \in Choices(DOMAIN opts, opts)}

CallsOf(cls, raws) == {[cls |-> cls, raw |-> r, mode |-> "python"] : r \in raws}

(* The calls, each with its keyword arguments written in every order *)
InEveryOrder(calls) ==
  UNION {{c @@ [keys |-> q] :
            q \in {p \in [1..Cardinality(DOMAIN c.raw) -> DOMAIN c.raw] :
                     \A i, j \in DOMAIN p : p[i] = p[j] => i = j}} : c \in calls}

(* Bounds of the model *)
MaxTextLen == 3

MaxRecords == 2

MaxTags == 1

TextAlphabet == {"1", "0", "a", ".", "-", " "}

Texts == UNION {[1..n -> TextAlphabet] : n \in 0..MaxTextLen}

(* Texts given for a boolean field *)
BoolTexts ==
  { <<"1">>, <<"0">>, <<"2">>, <<>>, <<"y", "e", "s">>, <<"Y", "E", "S">>, <<"n", "o">>,
    <<"f", "a", "l", "s", "e">>, <<"F", "a", "l", "s", "e">>, <<"o", "n">>,
    <<" ", "t", "r", "u", "e">>, <<"y">>, <<"n">>, <<"t">>, <<"f">>,
    <<"o", "f", "f">> }

ValidAddress == [street |-> S(Txt.street), city |-> S(Txt.city), postal_code |-> S(Txt.zip)]

ValidAuthor ==
  [username |-> S(Txt.uname), email |-> S(Txt.mail), password |-> S(Txt.pw),
   age |-> I(42)]

LessonOk == D([lesson_id |-> I(1), topic |-> S(Txt.topic)])

LessonBad == D([lesson_id |-> S(Txt.nan), topic |-> S(Txt.topic)])

LessonShort == D([lesson_id |-> I(2)])

ModuleOf(lessons) == D([module_id |-> I(1), name |-> S(Txt.title), lessons |-> L(lessons)])

(* Comment(id=2, content="Second Comment"): a reply built beforehand *)
CommentBuilt(id) ==
  Inst("Comment", [id |-> I(id), content |-> S(Txt.notes), replies |-> None])

(* Replies given as mappings: a leaf, a leaf whose id is not a number, a   *)
(* leaf without content, and a reply that has replies of its own           *)
ReplyOk == D([id |-> I(2), content |-> S(Txt.notes)])

ReplyBad == D([id |-> S(Txt.nan), content |-> S(Txt.notes)])

ReplyShort == D([id |-> I(3)])

ReplyWith(replies) == D([id |-> I(4), content |-> S(Txt.notes), replies |-> replies])

Calls(cls) ==
  CASE cls = "User02" ->
         InEveryOrder(CallsOf(cls, RawInputs(<<>>,
           [username |-> {S(Txt.john), I(7)},
            email |-> {S(Txt.mail), None},
            age |-> {I(40), S(Txt.n40), S(Txt.WWE)}])))
    [] cls = "User04" ->
         CallsOf(cls, RawInputs(<<>>,
           [uid |-> {I(101), S(Txt.n101), S(Txt.test)},
            username |-> {S(Txt.john)}, email |-> {S(Txt.mail)}, age |-> {I(40)},
            bio |-> {S(Txt.notes)}, is_active |-> {B(FALSE)},
            fullname |-> {S(Txt.James), None}]))
    [] cls = "User11" ->
         CallsOf(cls, RawInputs(
           [email |-> S(Txt.mail), password |-> S(Txt.pw), age |-> I(40)],
           [username |-> {S(Txt.uname), S(Txt.badname), S(Txt.shortname), I(7),
                          S(<<"j", "-">>), S(<<"_", "_", "_">>),
                          S(Txt.content \o Txt.content)},
            website |-> {S(Txt.site), I(123), None, S(txt_empty),
                         S(txt_https \o Txt.site), S(txt_http \o Txt.site)}]))
    [] cls = "User09" ->
         CallsOf(cls, RawInputs([email |-> S(Txt.mail)],
           [uid |-> {I(0), I(101), I(-1)},
            username |-> {S(Txt.shortname), S(Txt.uname), S(Txt.content \o Txt.content),
                          S(Txt.badname), S(Txt.content \o Txt.uname),
                          S(Txt.content \o Txt.uname \o <<"x">>)},
            age |-> {I(12), I(18), I(40), I(60), I(61)},
            bio |-> {S(Txt.notes), I(7)}]))
    [] cls = "UserF" ->
         CallsOf(cls, RawInputs([username |-> S(Txt.john)],
           [id |-> {I(101), S(Txt.n101a)} \cup {S(t) : t \in Texts},
            is_active |-> {B(TRUE), S(Txt.True), S(Txt.Saach)},
            isactive |-> {B(TRUE)}]))
    [] cls = "ProductF" ->
         CallsOf(cls, RawInputs(<<>>,
           [id |-> {I(5), S(Txt.n2), S(Txt.n10X)}, name |-> {S(Txt.john)},
            price |-> {F(299900), I(2999), S(Txt.price), S(Txt.free)},
            in_stock |-> {B(FALSE), S(Txt.true), S(Txt.maybe)} \cup {S(t) : t \in BoolTexts}]))
    [] cls = "UserRegistration12" ->
         CallsOf(cls, RawInputs(<<>>,
           [email |-> {S(Txt.mail), S(Txt.nomail)},
            password |-> {S(Txt.pw), S(Txt.pw2)},
            confirm_password |-> {S(Txt.pw), S(Txt.pw2), I(7)}]))
    [] cls = "UserRegistration14" ->
         CallsOf(cls, RawInputs([password |-> S(Txt.pw)],
           [first_name |-> {S(Txt.James)}, last_name |-> {S(Txt.Bond)},
            follower_count |-> {I(15000), I(9999)},
            email |-> {S(Txt.mail), S(Txt.nomail)},
            confirm_password |-> {S(Txt.pw), S(Txt.pw2)},
            display_name |-> {S(Txt.notes)},
            is_influencer |-> {B(TRUE)}]))
    [] cls = "SignUpData" ->
         CallsOf(cls, RawInputs(<<>>,
           [password |-> {S(Txt.pw), S(Txt.pw2), I(7)},
            confirm_password |-> {S(Txt.pw), S(Txt.pw2), None}]))
    [] cls = "Employee" ->
         CallsOf(cls, RawInputs(<<>>,
           [id |-> {I(5), S(Txt.n2)},
            name |-> {S(Txt.john), S(<<"A", "l">>), S(Txt.WWE),
                      S(Txt.content \o Txt.content \o Txt.content \o Txt.content
                        \o Txt.shortname),
                      S(Txt.content \o Txt.content \o Txt.content \o Txt.content
                        \o Txt.badname)},
            department |-> {S(Txt.WWE), None},
            salary |-> {I(50000), I(10000), I(8000), F(999999), S(Txt.price)}]))
    [] cls = "Booking" ->
         CallsOf(cls, RawInputs(<<>>,
           [user_id |-> {I(101), S(Txt.n101)}, room_id |-> {I(202)},
            nights |-> {I(3), S(Txt.n2), I(0), I(1)},
            rate_per_night |-> {F(250050), S(Txt.rate), I(1800)},
            total_amount |-> {F(100), S(Txt.free)}]))
    [] cls = "ProductB" ->
         CallsOf(cls, RawInputs(<<>>,
           [price |-> {F(49999), S(Txt.free)}, quantity |-> {I(3), S(Txt.n2)},
            total_price |-> {F(0)}]))
    [] cls = "User15" ->
         CallsOf(cls, RawInputs([email |-> S(Txt.mail), password |-> S(Txt.pw)],
           [username |-> {S(Txt.uname), S(Txt.badname), S(Txt.shortname)},
            age |-> {I(42), S(Txt.n40), I(12)},
            first_name |-> {S(Txt.James)}, last_name |-> {S(Txt.Bond)},
            follower_count |-> {I(25000)},
            website |-> {S(Txt.site), I(123)},
            display_name |-> {S(Txt.notes)}, is_influencer |-> {B(FALSE)},
            notes |-> {S(Txt.notes)}]))
    [] cls = "BlogPost15" ->
         CallsOf(cls, RawInputs([title |-> S(Txt.title), content |-> S(Txt.content \o Txt.content)],
           [slug |-> {S(Txt.slugok), S(Txt.title)},
            author |-> {D(ValidAuthor), D([ValidAuthor EXCEPT !.age = S(Txt.nan)]),
                        D([age |-> S(Txt.nan)]), S(Txt.john)},
            comments |-> {L(<<D([content |-> S(Txt.notes), author_email |-> S(Txt.mail)]),
                              D([content |-> S(Txt.notes), author_email |-> S(Txt.nomail)])>>)},
            tags |-> {L(<<S(Txt.tag)>>)}]))
    [] cls = "UserN" ->
         CallsOf(cls, RawInputs(<<>>,
           [id |-> {I(1), S(Txt.test)}, name |-> {S(Txt.john)},
            address |-> {D(ValidAddress), D([street |-> S(Txt.street)]),
                         D([ValidAddress EXCEPT !.postal_code = I(380001)]),
                         Inst("Address", ValidAddress), S(Txt.city)}]))
    [] cls = "Comment" ->
         CallsOf(cls, RawInputs(<<>>,
           [id |-> {I(1), S(Txt.nan)}, content |-> {S(Txt.content), I(5)}]))
         \cup
         CallsOf(cls, RawInputs([content |-> S(Txt.content)],
           [id |-> {I(1), S(Txt.nan)},
            replies |-> {None, L(<<>>), S(Txt.notes),
                         L(<<CommentBuilt(2), CommentBuilt(3)>>),
                         L(<<ReplyOk, ReplyBad, ReplyOk>>),
                         L(<<ReplyBad, I(7), ReplyShort>>),
                         L(<<ReplyWith(None), ReplyWith(L(<<ReplyOk, CommentBuilt(3)>>))>>),
                         L(<<ReplyWith(L(<<ReplyBad, ReplyOk>>)), ReplyShort>>),
                         L(<<ReplyWith(L(<<ReplyWith(L(<<ReplyOk, ReplyShort>>)),
                                           ReplyBad>>)),
                             ReplyOk>>),
                         L(<<ReplyWith(S(Txt.notes)), ReplyWith(L(<<ReplyBad>>))>>)}]))
    [] cls = "Course" ->
         CallsOf(cls, RawInputs([course_id |-> I(101)],
           [title |-> {S(Txt.title)},
            modules |-> {L(<<>>),
                         L(<<ModuleOf(<<LessonOk, LessonOk>>)>>),
                         L(<<ModuleOf(<<LessonOk, LessonBad>>)>>),
                         L(<<ModuleOf(<<LessonBad>>), ModuleOf(<<LessonOk, LessonShort>>)>>),
                         L(<<ModuleOf(<<LessonOk>>), D([module_id |-> S(Txt.nan)])>>)}]))

(* Request bodies posted to /signup *)
SignUpCalls ==
  CallsOf("UserSignUp", RawInputs([username |-> S(Txt.john)],
      [name |-> {S(Txt.mail), S(Txt.nomail)}, password |-> {S(Txt.pw), I(7)}]))

(* Records that hold a list of texts: the inputs of repeated construction *)
TaggedCalls ==
  CallsOf("BlogPost08", RawInputs(
      [bpid |-> I(201), title |-> S(Txt.title), content |-> S(Txt.content),
       author_id |-> I(101)],
      [tags |-> {L(<<S(Txt.tag)>>)}]))
  \cup
  CallsOf("UserS", RawInputs(
      [id |-> I(1), name |-> S(Txt.john), email |-> S(Txt.mail),
       createdAt |-> [t |-> "datetime", v |-> 0],
       address |-> Inst("AddressS", [street |-> S(Txt.street), city |-> S(Txt.city),
                                     zipcode |-> S(Txt.zip)])],
      [tags |-> {L(<<S(Txt.tag), S(Txt.tag2)>>)}]))

Classes ==
  {"User02", "User04", "User09", "User11", "Employee", "UserF", "ProductF", "UserRegistration12",
   "UserRegistration14", "SignUpData", "Booking", "ProductB", "User15",
   "BlogPost15", "UserN", "Comment", "Course"}

SingleCalls == UNION {Calls(cls) : cls \in Classes}

RECURSIVE SeqsUpTo(_, _)
SeqsUpTo(Sset, n) ==
  IF n = 0 THEN {<<>>}
  ELSE Bind(SeqsUpTo(Sset, n - 1),
            LAMBDA shorter :
              shorter \cup {<<x>> \o q : x \in Sset,
                                         q \in {r \in shorter : Len(r) = n - 1}})

(* A script is one construction, or up to MaxRecords constructions of       *)
(* records that hold lists.                                                 *)
Scripts == {<<c>> : c \in SingleCalls} \cup (SeqsUpTo(TaggedCalls, MaxRecords) \ {<<>>})

(* record.tags.append(x) *)
AppendTag ==
  /\ \E i \in 1..Len(records), x \in {Txt.tag, Txt.tag2} :
       /\ "tags" \in DOMAIN records[i].fields
       /\ records[i].fields["tags"].t = "ref"
       /\ Len(heap[records[i].fields["tags"].v]) < MaxTags + 2
       /\ heap' = [heap EXCEPT ![records[i].fields["tags"].v] = Append(@, S(x))]
  /\ dump' = NoDump
  /\ UNCHANGED <<script, call, out, records, clock, flights>>
  /\ UNCHANGED last

Init ==
  /\ script \in Scripts
  /\ call = NoCall
  /\ out = NoOut
  /\ dump = NoDump
  /\ records = <<>>
  /\ heap = << <<>> >>
  /\ clock = 0
  /\ flights = NoFlights
  /\ last = NoOp

Next == Create \/ ModelDump \/ AppendTag

Spec == Init /\ [][Next]_vars

----------------------------------------------------------------------------
(* After creation: assignment to a field of a record, and model_copy with  *)
(* an update mapping.                                                       *)

(* Values a script assigns or overrides with *)
Assigned ==
  [bio |-> {I(123), S(Txt.notes)},
   email |-> {S(Txt.mail), S(Txt.nomail), I(123)},
   age |-> {I(5), I(50)},
   first_name |-> {S(txt_empty), S(Txt.James)},
   follower_count |-> {I(25000)}]

(* The field of a class by its name *)
FieldNamed(cls, n) ==
  CHOOSE f \in {Fields(cls)[j] : j \in 1..Len(Fields(cls))} : f.name = n

(* The value as the field would be validated at creation *)
AssignedResult(cls, n, val) ==
  ValidateField(cls, FieldNamed(cls, n), [x \in {FieldNamed(cls, n).alias} |-> val],
                [now |-> 0, mode |-> "python"])

(* As Assign, but a frozen class is assigned to like any other *)
AssignUnfrozen(rec, n, val) == [err |-> "", rec |-> [rec EXCEPT !.fields[n] = val]]

(* As Assign, but every class validates what is assigned *)
AssignValidated(rec, n, val) ==
  IF AssignedResult(rec.cls, n, val).errs # <<>>
  THEN [err |-> AssignedResult(rec.cls, n, val).errs[1].kind, rec |-> rec]
  ELSE [err |-> "", rec |-> [rec EXCEPT !.fields[n] = AssignedResult(rec.cls, n, val).v]]

(* rec.n = val.  A frozen class refuses every assignment; a class with      *)
(* validate_assignment validates the value as it validates the field at     *)
(* creation; any other class binds the value as given.                      *)
Assign(rec, n, val) ==
  IF Config(rec.cls).frozen
  THEN [err |-> "frozen_instance", rec |-> rec]
  ELSE IF Config(rec.cls).validate_assignment
  THEN AssignValidated(rec, n, val)
  ELSE [err |-> "", rec |-> [rec EXCEPT !.fields[n] = val]]

SetAttr ==
  /\ last.kind = ""
  /\ \E i \in 1..Len(records) :
     \E n \in DOMAIN Assigned \cap DOMAIN records[i].fields :
     \E val \in Assigned[n] :
     \E r \in {Assign(records[i], n, val)} :
       /\ last' = [kind |-> "setattr", rec |-> i, res |-> 0,
                   upd |-> [x \in {n} |-> val], err |-> r.err]
       /\ records' = [records EXCEPT ![i] = r.rec]
  /\ UNCHANGED <<script, call, out, dump, heap, clock, flights>>

(* Update mappings of one or two keys *)
Overrides ==
  {u \in UNION {[K -> UNION {Assigned[n] : n \in K}] :
                  K \in {J \in SUBSET DOMAIN Assigned : Cardinality(J) \in {1, 2}}} :
     \A n \in DOMAIN u : u[n] \in Assigned[n]}

(* record.model_copy(update=upd): a new record with the fields of the old   *)
(* one (the same objects, not copies of them), the keys of upd rebound to    *)
(* the values given, as given; the old record is left as it was.             *)
ModelCopy ==
  /\ last.kind = ""
  /\ \E i \in 1..Len(records) :
     \E upd \in {u \in Overrides : DOMAIN u \subseteq DOMAIN records[i].fields} :
       /\ records' = Append(records,
            [records[i] EXCEPT !.fields =
               [n \in DOMAIN records[i].fields |->
                  IF n \in DOMAIN upd THEN upd[n] ELSE records[i].fields[n]]])
       /\ last' = [kind |-> "copy", rec |-> i, res |-> Len(records) + 1,
                   upd |-> upd, err |-> ""]
  /\ UNCHANGED <<script, call, out, dump, heap, clock, flights>>

(* Creations of users of lesson 5 and of lesson 15 *)
UpdateCalls ==
  CallsOf("User04", RawInputs(
      [uid |-> I(101), username |-> S(Txt.john), email |-> S(Txt.mail), age |-> I(40)],
      [bio |-> {S(Txt.notes)}]))
  \cup
  CallsOf("User15", RawInputs(
      [username |-> S(Txt.uname), email |-> S(Txt.mail), password |-> S(Txt.pw),
       age |-> I(42)],
      [first_name |-> {S(Txt.James)}, last_name |-> {S(Txt.Bond)},
       follower_count |-> {I(25000)}]))

InitUpdate ==
  /\ script \in {<<c>> : c \in UpdateCalls}
  /\ call = NoCall
  /\ out = NoOut
  /\ dump = NoDump
  /\ records = <<>>
  /\ heap = << <<>> >>
  /\ clock = 0
  /\ flights = NoFlights
  /\ last = NoOp

NextUpdate == Create \/ SetAttr \/ ModelCopy \/ ModelDump

SpecUpdate == InitUpdate /\ [][NextUpdate]_vars

----------------------------------------------------------------------------
(* Lesson 1: validation written by hand                                     *)

(* isinstance(x, t): True and False are instances of int *)
IsInstance(x, t) ==
  CASE t = "str" -> x.t = "str"
    [] t = "int" -> x.t \in {"int", "bool"}

(* raise TypeError(...) inside the try block, caught by `except Exception`  *)
(* and printed: nothing is returned and nothing leaves the function          *)
Caught(arg) ==
  [ok |-> FALSE, v |-> None, errs |-> <<Violation(<<arg>>, "TypeError", "print")>>,
   fault |-> "", trace |-> <<>>]

(* As create_user, but every failing check is printed *)
create_user_every_error(username, email, age) ==
  LET bad == SelectSeq(<< <<"Username", IsInstance(username, "str")>>,
                          <<"Email", IsInstance(email, "str")>>,
                          <<"Age", IsInstance(age, "int")>> >>,
                       LAMBDA c : ~c[2])
  IN IF bad = <<>>
     THEN Good(D([Username |-> username, Email |-> email, Age |-> age]))
     ELSE [ok |-> FALSE, v |-> None, fault |-> "", trace |-> <<>>,
           errs |-> [i \in 1..Len(bad) |-> Violation(<<bad[i][1]>>, "TypeError", "print")]]

(* create_user(username, email, age): the three checks in order; the first *)
(* that fails raises, so the later ones are not made; else the message       *)
(* built from user_context                                                   *)
create_user(username, email, age) ==
  IF ~IsInstance(username, "str") THEN Caught("Username")
  ELSE IF ~IsInstance(email, "str") THEN Caught("Email")
  ELSE IF ~IsInstance(age, "int") THEN Caught("Age")
  ELSE Good(D([Username |-> username, Email |-> email, Age |-> age]))

(* Arguments of create_user: the two calls of the lesson and their like *)
ManualCalls ==
  CallsOf("create_user",
          {[username |-> u, email |-> e, age |-> a] :
             u \in {S(Txt.john), None, I(7), B(TRUE), L(<<>>)},
             e \in {S(Txt.mail), None, I(7), S(Txt.nomail)},
             a \in {I(40), S(Txt.WWE), None, B(TRUE), F(4000), S(Txt.n40)}})

(* user = create_user(...) *)
ManualCreate ==
  /\ script # <<>>
  /\ call' = Head(script)
  /\ out' = create_user(call'.raw.username, call'.raw.email, call'.raw.age)
  /\ script' = Tail(script)
  /\ clock' = clock + 1
  /\ UNCHANGED <<dump, records, heap, flights, last>>

InitManual ==
  /\ script \in {<<c>> : c \in ManualCalls}
  /\ call = NoCall
  /\ out = NoOut
  /\ dump = NoDump
  /\ records = <<>>
  /\ heap = << <<>> >>
  /\ clock = 0
  /\ flights = NoFlights
  /\ last = NoOp

NextManual == ManualCreate

SpecManual == InitManual /\ [][NextManual]_vars

----------------------------------------------------------------------------
(* Requests served at the same time.  The endpoint is a plain function, so  *)
(* the server runs each request on a worker thread, and two requests        *)
(* validate their bodies against one class with their steps interleaved:    *)
(* a validation is begun, goes through the fields one at a time, and is     *)
(* finished by the model validators and the construction of the record.     *)

RECURSIVE FoldFields(_, _, _)
FoldFields(cls, frs, i) ==
  IF i > Len(frs) THEN NoFields
  ELSE IF frs[i].fault # ""
  THEN [NoFields EXCEPT !.fault = frs[i].fault, !.trace = frs[i].trace]
  ELSE Bind(FoldFields(cls, frs, i + 1),
            LAMBDA rest :
              IF rest.fault # ""
              THEN [rest EXCEPT !.trace = frs[i].trace \o rest.trace]
              ELSE JoinField(Fields(cls)[i], frs[i], rest))

FieldsDone(f) ==
  \/ f.i > Len(Fields(f.cls))
  \/ f.frs # <<>> /\ f.frs[Len(f.frs)].fault # ""

BeginCall(k) ==
  /\ flights[k].st = "idle"
  /\ script # <<>>
  /\ flights' = [flights EXCEPT ![k] =
                   [st |-> "run", cls |-> Head(script).cls, raw |-> Head(script).raw,
                    mode |-> Head(script).mode, now |-> clock, i |-> 1,
                    frs |-> <<>>, out |-> NoOut]]
  /\ script' = Tail(script)
  /\ clock' = clock + 1
  /\ UNCHANGED <<call, out, dump, records, heap>>
  /\ UNCHANGED last

StepField(k) ==
  /\ flights[k].st = "run"
  /\ ~FieldsDone(flights[k])
  /\ flights' = [flights EXCEPT
       ![k].frs = Append(@, ValidateField(flights[k].cls,
                                          Fields(flights[k].cls)[flights[k].i],
                                          flights[k].raw,
                                          [now |-> flights[k].now,
                                           mode |-> flights[k].mode])),
       ![k].i = @ + 1]
  /\ UNCHANGED <<script, call, out, dump, records, heap, clock>>
  /\ UNCHANGED last

FinishCall(k) ==
  /\ flights[k].st = "run"
  /\ FieldsDone(flights[k])
  /\ \E r \in {FinishModel(flights[k].cls, flights[k].raw,
                            FoldFields(flights[k].cls, flights[k].frs, 1))} :
       /\ flights' = [flights EXCEPT ![k].st = "done", ![k].out = r, ![k].frs = <<>>]
       /\ IF r.ok
          THEN \E m \in {Materialize(flights[k].cls, r.v.v, 1, heap)} :
                 /\ records' = Append(records, [cls |-> flights[k].cls,
                                                fields |-> m.fields,
                                                extra |-> r.v.v.extra])
                 /\ heap' = m.heap
          ELSE UNCHANGED <<records, heap>>
  /\ UNCHANGED <<script, call, out, dump, clock>>
  /\ UNCHANGED last

InitInterleaved ==
  /\ script \in {<<a, b>> : a \in SignUpCalls \cup TaggedCalls,
                             b \in SignUpCalls \cup TaggedCalls}
  /\ call = NoCall
  /\ out = NoOut
  /\ dump = NoDump
  /\ records = <<>>
  /\ heap = << <<>> >>
  /\ clock = 0
  /\ flights = NoFlights
  /\ last = NoOp

NextInterleaved == \E k \in {1, 2} : BeginCall(k) \/ StepField(k) \/ FinishCall(k)

SpecInterleaved == InitInterleaved /\ [][NextInterleaved]_vars

----------------------------------------------------------------------------
(* Properties of the validation pass *)

Called == call.cls # ""

CallEnv == [now |-> 0, mode |-> call.mode]

(* The declared fields of the call's class that fail on their own *)
InvalidFields ==
  {fs.name : fs \in {f \in {Fields(call.cls)[i] : i \in 1..Len(Fields(call.cls))} :
                       ~ValidateField(call.cls, f, call.raw, CallEnv).ok}}

(* The declared fields the raw input leaves out although they are required *)
OmittedRequired ==
  {fs.name : fs \in {f \in {Fields(call.cls)[i] : i \in 1..Len(Fields(call.cls))} :
                       f.required /\ f.alias \notin DOMAIN call.raw
                       /\ ~(Config(call.cls).populate_by_name
                            /\ f.name \in DOMAIN call.raw)}}

ErrIdx == 1..Len(out.errs)

ReportedFields == {out.errs[i].loc[1] : i \in {j \in ErrIdx : out.errs[j].stage = "field"}}

MissingIdx == {i \in ErrIdx : out.errs[i].kind = "missing" /\ Len(out.errs[i].loc) = 1}

(* C1: the pass never stops at the first failure: the fields named by the  *)
(* violations of a ValidationError are exactly the fields that are missing  *)
(* and required or fail to resolve, so n invalid fields give n reported     *)
(* fields.                                                                  *)
C1_EveryInvalidFieldReported ==
  Called /\ out.fault = "" =>
    /\ ReportedFields = InvalidFields
    /\ (InvalidFields # {} => ~out.ok)

(* User(username ok, email=None, age="WWE") reports the 2 fields email, age *)
C1_Witness ==
  /\ call.cls = "User02"
  /\ call.raw = [username |-> S(Txt.john), email |-> None, age |-> S(Txt.WWE)]
  /\ ReportedFields = {"email", "age"}
  /\ Len(out.errs) = 2

(* C2: an input that omits k required fields is reported with exactly k    *)
(* missing-field violations, one per omitted required field.                *)
C2_OneMissingPerOmittedRequired ==
  Called /\ out.fault = "" =>
    /\ Cardinality(MissingIdx) = Cardinality(OmittedRequired)
    /\ {out.errs[i].loc[1] : i \in MissingIdx} = OmittedRequired

(* User() of lesson 4, with 4 required fields, reports 4 missing fields *)
C2_Witness ==
  /\ call.cls = "User04"
  /\ call.raw = <<>>
  /\ Cardinality(MissingIdx) = 4
  /\ Len(out.errs) = 4

(* The declared fields with a plain default that the raw input leaves out *)
OmittedDefaulted ==
  {f \in {Fields(call.cls)[i] : i \in 1..Len(Fields(call.cls))} :
     ~f.required /\ f.factory = "" /\ f.alias \notin DOMAIN call.raw
     /\ ~(Config(call.cls).populate_by_name /\ f.name \in DOMAIN call.raw)}

(* C3: a field with a default never gives a missing-field violation: when  *)
(* the raw input omits it the record holds the default, and the violations  *)
(* of an empty input name only required fields.                             *)
C3_DefaultsNeverMissing ==
  Called /\ out.fault = "" =>
    /\ \A f \in OmittedDefaulted :
         /\ f.name \notin ReportedFields
         /\ out.ok => out.v.v.fields[f.name] = f.default
    /\ \A i \in ErrIdx :
         out.errs[i].kind = "missing" /\ Len(out.errs[i].loc) = 1
           => \E j \in 1..Len(Fields(call.cls)) :
                Fields(call.cls)[j].name = out.errs[i].loc[1]
                /\ Fields(call.cls)[j].required

(* user2 of lesson 4: only the required fields given; bio, is_active and   *)
(* fullname hold "", True and None                                          *)
C3_Witness ==
  /\ call.cls = "User04"
  /\ DOMAIN call.raw = {"uid", "username", "email", "age"}
  /\ out.ok
  /\ out.v.v.fields["bio"] = S(<<>>)
  /\ out.v.v.fields["is_active"] = B(TRUE)
  /\ out.v.v.fields["fullname"] = None
(* The integer field of the classes that are given texts for it *)
IntKey == IF call.cls = "User04" THEN "uid" ELSE "id"

TextForInt ==
  /\ call.cls \in {"UserF", "ProductF", "User04"}
  /\ IntKey \in DOMAIN call.raw
  /\ call.raw[IntKey].t = "str"

IntText == call.raw[IntKey].v

(* The span a..b of s without the blanks around it, if s is not all blank *)
Spans(s) ==
  {ab \in (1..Len(s)) \X (1..Len(s)) :
     /\ ab[1] <= ab[2]
     /\ s[ab[1]] # " " /\ s[ab[2]] # " "
     /\ \A i \in 1..Len(s) : i < ab[1] \/ i > ab[2] => s[i] = " "}

FirstDigitAt(s, a) == IF s[a] \in {"-", "+"} THEN a + 1 ELSE a

(* s[a..b] is an optional sign and a run of digits ending at d *)
SignedDigits(s, a, d) ==
  /\ FirstDigitAt(s, a) <= d
  /\ \A i \in FirstDigitAt(s, a)..d : s[i] \in Digits

(* An optionally signed run of decimal digits between optional blanks *)
IsIntLiteral(s) == \E ab \in Spans(s) : SignedDigits(s, ab[1], ab[2])

(* The same, optionally followed by a point and nothing but zeros *)
IntEnds(s) ==
  {abd \in {<<ab[1], ab[2], d>> : ab \in Spans(s), d \in 1..Len(s)} :
     /\ abd[3] <= abd[2]
     /\ SignedDigits(s, abd[1], abd[3])
     /\ \/ abd[3] = abd[2]
        \/ /\ s[abd[3] + 1] = "."
           /\ \A i \in (abd[3] + 2)..abd[2] : s[i] = "0"}

IntOf(s, abd) ==
  (IF s[abd[1]] = "-" THEN -1 ELSE 1)
    * DigitsVal(SubSeq(s, FirstDigitAt(s, abd[1]), abd[3]))

IntAccepted == IntKey \notin ReportedFields

TagsOf(rec, h) == h[rec.fields["tags"].v]

HoldsTags(rec) == "tags" \in DOMAIN rec.fields /\ rec.fields["tags"].t = "ref"

ModelViolation == Violation(<<>>, "value_error", "model")

(* C6: with a model validator requiring password = confirm_password, an    *)
(* input whose fields are all valid on their own fails with exactly one     *)
(* model-level violation and no field-level one when the two texts differ,  *)
(* and succeeds when they are equal.                                        *)
C6_PasswordMismatchIsOneModelViolation ==
  Called /\ ModelValidators(call.cls) # <<>> /\ InvalidFields = {} =>
    IF call.raw["password"].v # call.raw["confirm_password"].v
    THEN ~out.ok /\ out.errs = <<ModelViolation>>
    ELSE out.ok /\ out.errs = <<>>

(* SignUpData(password="secret123", confirm_password="secret") *)
C6_Witness ==
  /\ call.cls = "SignUpData"
  /\ call.raw = [password |-> S(Txt.pw), confirm_password |-> S(Txt.pw2)]
  /\ out.errs = <<ModelViolation>>

FieldStageFailed == \E i \in ErrIdx : out.errs[i].stage = "field"

(* C7: model validators and computed fields come after the fields: when a  *)
(* field-level violation was recorded, no model validator was invoked, the  *)
(* error holds no model-level violation, and no record exists on which a    *)
(* computed field could be evaluated.                                       *)
C7_ModelStageOnlyAfterFields ==
  Called /\ FieldStageFailed =>
    /\ \A i \in 1..Len(out.trace) : out.trace[i][1] # "model"
    /\ \A i \in ErrIdx : out.errs[i].stage # "model"
    /\ ~out.ok
    /\ Len(records) < clock

(* Lesson 12: an invalid email together with mismatched passwords reports  *)
(* only the email                                                           *)
C7_Witness ==
  /\ call.cls = "UserRegistration12"
  /\ call.raw = [email |-> S(Txt.nomail), password |-> S(Txt.pw),
                 confirm_password |-> S(Txt.pw2)]
  /\ Len(out.errs) = 1
  /\ out.errs[1].loc = <<"email">>

Dumped == dump.rec # 0

(* C8: a computed field of a record equals its defining function applied   *)
(* to the validated values: total_amount = nights * rate_per_night (3 *     *)
(* 2500.5 = 7501.5, "2" * "1999.99" = 3999.98), total_price = price *       *)
(* quantity, is_influencer = (follower_count >= 10000).                     *)
C8_ComputedFromValidatedValues ==
  Dumped =>
    LET rec == records[dump.rec]
    IN /\ rec.cls = "Booking" =>
            /\ dump.data["total_amount"].t = "float"
            /\ dump.data["total_amount"].v
                 = rec.fields["nights"].v * rec.fields["rate_per_night"].v
            /\ call.raw["nights"] = I(3) /\ call.raw["rate_per_night"] = F(250050)
                 => dump.data["total_amount"] = F(750150)
            /\ call.raw["nights"] = S(Txt.n2) /\ call.raw["rate_per_night"] = S(Txt.rate)
                 => dump.data["total_amount"] = F(399998)
       /\ rec.cls = "ProductB" =>
            dump.data["total_price"] = F(rec.fields["price"].v * rec.fields["quantity"].v)
       /\ rec.cls \in {"UserRegistration14", "User15"} =>
            dump.data["is_influencer"] = B(rec.fields["follower_count"].v >= 10000)

(* Booking(nights="2", rate_per_night="1999.99") dumped *)
C8_Witness ==
  /\ Dumped
  /\ call.cls = "Booking"
  /\ call.raw["nights"] = S(Txt.n2)
  /\ call.raw["rate_per_night"] = S(Txt.rate)
  /\ dump.data["total_amount"] = F(399998)

ComputedNames == {ComputedFields(call.cls)[i] : i \in 1..Len(ComputedFields(call.cls))}

RawWithoutComputed == [k \in DOMAIN call.raw \ ComputedNames |-> call.raw[k]]

(* C9: a raw entry under the name of a computed field is ignored: the      *)
(* outcome has the violations it has without the entry, and the record's    *)
(* computed value is the one it has without it.  Checked under the          *)
(* unknown-field policies the schemas declare: the default one and          *)
(* extra="allow" of the User of lesson 15.                                  *)
C9_ComputedNameInInputIgnored ==
  Called /\ ComputedNames \cap DOMAIN call.raw # {} =>
    \A r \in {Validate(call.cls, RawWithoutComputed, CallEnv)} :
      /\ out.ok = r.ok
      /\ out.errs = r.errs
      /\ Dumped =>
           \A n \in ComputedNames :
             dump.data[n] = ComputedValue(call.cls, n, r.v.v.fields)

(* User(..., display_name="notes") under extra="allow", dumped *)
C9_Witness ==
  /\ Dumped
  /\ call.cls = "User15"
  /\ "display_name" \in DOMAIN call.raw
  /\ "display_name" \in DOMAIN records[1].extra
  /\ dump.data["display_name"] # call.raw["display_name"]

FieldSet(cls) == {Fields(cls)[i] : i \in 1..Len(Fields(cls))}

(* The type under Optional[...] *)
Inner(ty) == IF ty.k = "optional" THEN ty.of[1] ELSE ty

IsModelList(ty) == Inner(ty).k = "list" /\ Inner(ty).of[1].k = "model"

IsIndexOf(seg, xs) == \E i \in 1..Len(xs) : IdxStr(i - 1) = seg

ItemAt(seg, xs) == xs[CHOOSE i \in 1..Len(xs) : IdxStr(i - 1) = seg]

(* loc is a chain of field names only, from a field of cls downwards *)
RECURSIVE NamesOnly(_, _)
NamesOnly(cls, loc) ==
  \E f \in FieldSet(cls) :
    /\ f.name = loc[1]
    /\ \/ Len(loc) = 1
       \/ f.ty.k = "model" /\ NamesOnly(f.ty.cls, Tail(loc))
       \/ IsModelList(f.ty) /\ NamesOnly(Inner(f.ty).of[1].cls, Tail(loc))

(* loc leads from raw, an input of cls, to the field that fails: a field   *)
(* name, then for a nested schema the path inside it, and for a list of     *)
(* nested schemas the index of the element and then the path inside it      *)
RECURSIVE PathTo(_, _, _)
PathTo(cls, raw, loc) ==
  \E f \in FieldSet(cls) :
    /\ f.name = loc[1]
    /\ IF f.alias \notin DOMAIN raw THEN Len(loc) = 1 /\ f.required
       ELSE IF f.ty.k = "model" /\ raw[f.alias].t = "dict"
       THEN Len(loc) > 1 /\ PathTo(f.ty.cls, raw[f.alias].v, Tail(loc))
       ELSE IF IsModelList(f.ty) /\ raw[f.alias].t = "list"
       THEN /\ Len(loc) > 1
            /\ IsIndexOf(loc[2], raw[f.alias].v)
            /\ IF ItemAt(loc[2], raw[f.alias].v).t = "dict"
               THEN /\ Len(loc) > 2
                    /\ PathTo(Inner(f.ty).of[1].cls, ItemAt(loc[2], raw[f.alias].v).v,
                              Tail(Tail(loc)))
               ELSE Len(loc) = 2
       ELSE Len(loc) = 1 /\ ~ValidateField(cls, f, raw, CallEnv).ok

FieldErrIdx == {i \in ErrIdx : out.errs[i].stage = "field"}

Locs == {out.errs[i].loc : i \in FieldErrIdx}

(* C10 as stated: the path of a violation found in a nested value is the   *)
(* parent field name followed by the nested field name, at every depth.     *)
C10_PathIsFieldNames ==
  Called => \A i \in FieldErrIdx : NamesOnly(call.cls, out.errs[i].loc)

(* C10, amended: the path of a violation found in a nested value is the    *)
(* parent field name followed by the nested field name when the parent      *)
(* field holds one nested schema (author.age, address.postal_code); when    *)
(* it holds a list of them, the index of the element stands between the     *)
(* two (modules.0.lessons.1.lesson_id), at every depth.                     *)
C10_PathIsFieldNamesAndIndexes ==
  Called /\ out.fault = "" =>
    /\ \A i \in FieldErrIdx : PathTo(call.cls, call.raw, out.errs[i].loc)
    /\ /\ call.cls = "BlogPost15" /\ "author" \in DOMAIN call.raw
       /\ call.raw["author"] = D([age |-> S(Txt.nan)])
       => <<"author", "age">> \in Locs
    /\ /\ call.cls = "Course" /\ "modules" \in DOMAIN call.raw
       /\ call.raw["modules"] = L(<<ModuleOf(<<LessonOk, LessonBad>>)>>)
       => \E i \in FieldErrIdx :
            out.errs[i] = Violation(<<"modules", "0", "lessons", "1", "lesson_id">>,
                                    "int_parsing", "field")

(* A course whose first module's second lesson has a bad lesson_id *)
C10_Witness ==
  /\ call.cls = "Course"
  /\ DOMAIN call.raw = {"course_id", "title", "modules"}
  /\ call.raw["modules"] = L(<<ModuleOf(<<LessonOk, LessonBad>>)>>)
  /\ Locs = {<<"modules", "0", "lessons", "1", "lesson_id">>}
(* C11: a call ends in exactly one of two outcomes: a complete record (all *)
(* declared fields, and all computed fields when dumped) with no violation, *)
(* or a ValidationError with a non-empty list of violations and no record.  *)
C11_RecordOrValidationError ==
  Called =>
    \/ /\ out.ok /\ out.errs = <<>> /\ out.fault = ""
       /\ DOMAIN out.v.v.fields = FieldNames(call.cls)
       /\ Len(records) > 0
       /\ Dumped =>
            \A n \in FieldNames(records[dump.rec].cls)
                       \cup {ComputedFields(records[dump.rec].cls)[i] :
                               i \in 1..Len(ComputedFields(records[dump.rec].cls))} :
              n \in DOMAIN dump.data
    \/ /\ ~out.ok /\ out.errs # <<>> /\ out.fault = ""
       /\ Len(records) < clock
ConsHold(c, v) ==
  /\ v.t = "int" => (\A n \in c.ge : v.v >= n) /\ (\A n \in c.le : v.v <= n)
  /\ v.t = "str" =>
       /\ \A n \in c.minLen : Len(v.v) >= n
       /\ \A n \in c.maxLen : Len(v.v) <= n
       /\ c.pattern # "" => MatchesPattern(c.pattern, v.v)

(* v is a value of the declared type ty; a nested record satisfies the     *)
(* record invariant of its own class                                        *)
RECURSIVE TypeCorrect(_, _)
RECURSIVE RecordInvariant(_, _)
TypeCorrect(ty, v) ==
  CASE ty.k \in {"int", "str", "float", "bool", "url", "secret", "uuid", "datetime"} ->
         v.t = ty.k
    [] ty.k = "email" -> v.t = "str" /\ \E i \in 1..Len(v.v) : v.v[i] = "@"
    [] ty.k = "literal" -> v \in ty.vals
    [] ty.k = "optional" -> v = None \/ TypeCorrect(ty.of[1], v)
    [] ty.k = "union" -> \E i \in 1..Len(ty.of) : TypeCorrect(ty.of[i], v)
    [] ty.k = "list" ->
         v.t = "list" /\ \A i \in 1..Len(v.v) : TypeCorrect(ty.of[1], v.v[i])
    [] ty.k = "model" ->
         v.t = "model" /\ v.v.cls = ty.cls /\ RecordInvariant(ty.cls, v.v.fields)

RecordInvariant(cls, fields) ==
  /\ DOMAIN fields = FieldNames(cls)
  /\ \A f \in FieldSet(cls) :
       TypeCorrect(f.ty, fields[f.name]) /\ ConsHold(f.cons, fields[f.name])
  /\ ModelValidators(cls) # <<>> => fields["password"].v = fields["confirm_password"].v

Conforming ==
  /\ InvalidFields = {}
  /\ ModelValidators(call.cls) # <<>> =>
       call.raw["password"] = call.raw["confirm_password"]

PlainNames(cls) == {f.name : f \in {g \in FieldSet(cls) : g.factory = ""}}

(* Two outcomes are equal, but for the values of producer-function defaults *)
SameOutcome(cls, a, b) ==
  /\ a.ok = b.ok /\ a.errs = b.errs /\ a.fault = b.fault /\ a.trace = b.trace
  /\ a.ok => \A n \in PlainNames(cls) : a.v.v.fields[n] = b.v.v.fields[n]

RecordLists == {<<i, n>> \in (1..Len(records)) \X {"tags"} : HoldsTags(records[i])}

Frozen(i) == Config(records[i].cls).frozen

(* C16 as stated: no record is ever mutated in place: every step leaves    *)
(* every field of every existing record as it was; model_copy returns a new *)
(* record with the overridden values; an assignment to a record of a frozen *)
(* class fails.                                                             *)
C16_NeverMutatedInPlace ==
  [][ /\ \A i \in 1..Len(records) : records'[i] = records[i]
      /\ last'.kind = "copy" /\ last.kind = "" =>
           /\ Len(records') = Len(records) + 1
           /\ \A n \in DOMAIN last'.upd : records'[last'.res].fields[n] = last'.upd[n]
      /\ last'.kind = "setattr" /\ last.kind = "" /\ Frozen(last'.rec) =>
           last'.err # "" ]_vars

(* C16, amended: model_copy with an update mapping returns a new record     *)
(* that holds the overridden values and, for every other field, the value   *)
(* of the original, and leaves every record that existed as it was; an       *)
(* assignment to a field of a record of a frozen class fails and leaves the  *)
(* record as it was; no step changes a record of a frozen class.             *)
C16_UpdateIsPureAndFrozenIsKept ==
  [][ /\ \A i \in 1..Len(records) : Frozen(i) => records'[i] = records[i]
      /\ last'.kind = "copy" /\ last.kind = "" =>
           /\ Len(records') = Len(records) + 1
           /\ last'.res = Len(records')
           /\ \A i \in 1..Len(records) : records'[i] = records[i]
           /\ records'[last'.res].cls = records[last'.rec].cls
           /\ \A n \in DOMAIN records[last'.rec].fields :
                records'[last'.res].fields[n]
                  = IF n \in DOMAIN last'.upd THEN last'.upd[n]
                    ELSE records[last'.rec].fields[n]
      /\ last'.kind = "setattr" /\ last.kind = "" /\ Frozen(last'.rec) =>
           /\ last'.err = "frozen_instance"
           /\ records' = records ]_vars

(* A user of lesson 15 copied with another email: the copy holds it, the    *)
(* original holds the email it was created with                              *)
C16_Witness ==
  /\ last.kind = "copy"
  /\ records[last.rec].cls = "User15"
  /\ DOMAIN last.upd = {"email"}
  /\ records[last.res].fields["email"] = S(Txt.nomail)
  /\ records[last.rec].fields["email"] = S(Txt.mail)
(* C19: validation happens at creation only: an assignment to a field of a  *)
(* record whose class is not frozen succeeds with no check of type or        *)
(* constraint, the record then holds the value as given (user.bio = 123      *)
(* leaves the integer 123 in a field declared str), its other fields are     *)
(* as created, and no error is raised.                                       *)
C19_AssignmentIsUnchecked ==
  last.kind = "setattr" /\ ~Frozen(last.rec) =>
    /\ last.err = ""
    /\ \A n \in DOMAIN records[last.rec].fields :
         records[last.rec].fields[n]
           = IF n \in DOMAIN last.upd THEN last.upd[n] ELSE out.v.v.fields[n]

(* user.bio = 123 on a user of lesson 5 created with a text for bio *)
C19_Witness ==
  /\ last.kind = "setattr"
  /\ records[last.rec].cls = "User04"
  /\ "bio" \in DOMAIN call.raw
  /\ call.raw["bio"] = S(Txt.notes)
  /\ records[last.rec].fields["bio"] = I(123)
  /\ ~TypeCorrect(FieldNamed("User04", "bio").ty, records[last.rec].fields["bio"])

(* C20: every record made by model_copy with an update mapping from a valid *)
(* record satisfies the record invariant: the overridden values are of the  *)
(* declared types and satisfy the declared constraints, and the computed     *)
(* fields of its dump equal their defining functions of the overridden       *)
(* values.                                                                   *)
C20_CopySatisfiesInvariant ==
  last.kind = "copy" =>
    /\ RecordInvariant(records[last.res].cls, records[last.res].fields)
    /\ Dumped /\ dump.rec = last.res /\ records[last.res].cls = "User15" =>
         /\ dump.data["is_influencer"]
              = B(records[last.res].fields["follower_count"].v >= 10000)
         /\ dump.data["display_name"]
              = IF records[last.res].fields["first_name"].v # <<>>
                   /\ records[last.res].fields["last_name"].v # <<>>
                THEN S(records[last.res].fields["first_name"].v \o <<" ">>
                       \o records[last.res].fields["last_name"].v)
                ELSE records[last.res].fields["username"]
BoolField == IF call.cls = "UserF" THEN "is_active" ELSE "in_stock"

(* C17: a text given for a boolean field is accepted iff, compared without  *)
(* regard to case, it is one of the tokens for true ("true", "True", "1",    *)
(* "yes", and "t", "y", "on") or for false ("false", "0", "no", and "f",     *)
(* "n", "off"); the record then holds true or false accordingly; any other   *)
(* text ("Saach", "maybe", "2", the empty text) gives one violation of kind  *)
(* bool_parsing on the field: a text is never taken by its truthiness.       *)
C17_BoolTextAllowList ==
  Called /\ call.cls \in {"UserF", "ProductF"} /\ BoolField \in DOMAIN call.raw
         /\ call.raw[BoolField].t = "str" =>
    LET l == LowerText(call.raw[BoolField].v)
        yes == l \in {<<"t","r","u","e">>, <<"1">>, <<"y","e","s">>, <<"t">>, <<"y">>,
                      <<"o","n">>}
        no == l \in {<<"f","a","l","s","e">>, <<"0">>, <<"n","o">>, <<"f">>, <<"n">>,
                     <<"o","f","f">>}
        at == {i \in 1..Len(out.errs) : out.errs[i].loc = <<BoolField>>}
    IN /\ (yes \/ no) <=> at = {}
       /\ out.ok /\ yes => out.v.v.fields[BoolField] = B(TRUE)
       /\ out.ok /\ no => out.v.v.fields[BoolField] = B(FALSE)
       /\ ~(yes \/ no) =>
            /\ ~out.ok
            /\ Cardinality(at) = 1
            /\ \A i \in at : out.errs[i].kind = "bool_parsing"

(* Product(in_stock="YES") is in stock *)
C17_Witness ==
  /\ call.cls = "ProductF"
  /\ "in_stock" \in DOMAIN call.raw
  /\ call.raw["in_stock"] = S(<<"Y", "E", "S">>)
  /\ out.ok
  /\ out.v.v.fields["in_stock"] = B(TRUE)
FieldIdx(cls, n) ==
  CHOOSE i \in 1..Len(Fields(cls)) : Fields(cls)[i].name = n \/ Fields(cls)[i].alias = n

LocHeads == [i \in 1..Len(out.errs) |-> out.errs[i].loc[1]]

(* C18: the violations of a failed call are listed in the order in which    *)
(* the class declares their fields, whatever the order of the keys of the    *)
(* raw input: for User(username, email, age) with all three omitted the list *)
(* is username, email, age, and with email and age invalid it is email,      *)
(* age.                                                                      *)
C18_DeclarationOrder ==
  Called /\ ~out.ok /\ out.fault = "" =>
    /\ \A a, b \in FieldErrIdx :
         a < b => FieldIdx(call.cls, out.errs[a].loc[1])
                    <= FieldIdx(call.cls, out.errs[b].loc[1])
    /\ call.cls = "User02" /\ DOMAIN call.raw = {} =>
         LocHeads = <<"username", "email", "age">>
    /\ /\ call.cls = "User02" /\ DOMAIN call.raw = {"username", "email", "age"}
       /\ call.raw["username"] = S(Txt.john) /\ call.raw["email"] = None
       /\ call.raw["age"] = S(Txt.WWE)
       => LocHeads = <<"email", "age">>

(* User(age="WWE", email=None, username="JohnCena"): the keys in the        *)
(* reverse of the declared order                                             *)
C18_Witness ==
  /\ call.cls = "User02"
  /\ call.keys = <<"age", "email", "username">>
  /\ call.raw["email"] = None /\ call.raw["age"] = S(Txt.WWE)
  /\ call.raw["username"] = S(Txt.john)
  /\ LocHeads = <<"email", "age">>
ErrsAt(n) == {i \in ErrIdx : out.errs[i].loc # <<>> /\ out.errs[i].loc[1] = n}

(* C21: the before-validator of website runs on the supplied raw value,     *)
(* before the type is resolved, and only when the key is supplied: a text    *)
(* that is not empty and starts with neither "http://" nor "https://" is     *)
(* replaced by "https://" followed by it and then resolved ("007.com" gives  *)
(* the URL https://007.com); None, the empty text and a text that has one of *)
(* the prefixes go to the type as they are (None is accepted, the empty text *)
(* is no URL).                                                               *)
C21_WebsitePreTransform ==
  Called /\ call.cls \in {"User11", "User15"} =>
    LET sup == "website" \in DOMAIN call.raw
        ran == \E i \in 1..Len(out.trace) : out.trace[i][1] = "before"
        w == call.raw["website"]
        pre == \/ Len(w.v) >= 7 /\ SubSeq(w.v, 1, 7) = <<"h", "t", "t", "p", ":", "/", "/">>
               \/ /\ Len(w.v) >= 8
                  /\ SubSeq(w.v, 1, 8) = <<"h", "t", "t", "p", "s", ":", "/", "/">>
    IN /\ ran <=> sup
       /\ ~sup => ErrsAt("website") = {} /\ (out.ok => out.v.v.fields["website"] = None)
       /\ sup /\ w = None =>
            ErrsAt("website") = {} /\ (out.ok => out.v.v.fields["website"] = None)
       /\ sup /\ w.t = "str" /\ w.v = <<>> =>
            /\ ~out.ok /\ Cardinality(ErrsAt("website")) = 1
            /\ \A i \in ErrsAt("website") : out.errs[i].kind = "url_parsing"
       /\ sup /\ w.t = "str" /\ w.v # <<>> /\ pre =>
            /\ ErrsAt("website") = {}
            /\ out.ok => out.v.v.fields["website"] = [t |-> "url", v |-> w.v]
       /\ sup /\ w.t = "str" /\ w.v # <<>> /\ ~pre =>
            /\ ErrsAt("website") = {}
            /\ out.ok => out.v.v.fields["website"]
                           = [t |-> "url",
                              v |-> <<"h", "t", "t", "p", "s", ":", "/", "/">> \o w.v]

(* User(username="Bond_007", ..., website="007.com") of lesson 11 *)
C21_Witness ==
  /\ call.cls = "User11"
  /\ "website" \in DOMAIN call.raw
  /\ call.raw["website"] = S(Txt.site)
  /\ out.ok
  /\ out.v.v.fields["website"]
       = [t |-> "url", v |-> <<"h", "t", "t", "p", "s", ":", "/", "/">> \o Txt.site]
(* C22: in every record of the User of lessons 11 and 15 the username is    *)
(* the supplied username in lower case, of 3 to 20 characters, each a       *)
(* letter, a digit or an underscore; a supplied username with any other      *)
(* character is rejected with a violation on username; and the character     *)
(* rule is applied only to a value that passed the type and the length       *)
(* checks: a value that is no text or is too short or too long gives the     *)
(* one violation of the type or of the length and the validator is not run.  *)
(* (Violations are looked at where the call ends in a list of them.)         *)
C22_UsernameRules ==
  Called /\ call.cls \in {"User11", "User15"} /\ "username" \in DOMAIN call.raw =>
    LET u == call.raw["username"]
        ran == \E i \in 1..Len(out.trace) :
                 out.trace[i][1] = "after" /\ out.trace[i][2] = call.cls
        plain(c) == c = "_" \/ c \in Digits
                    \/ \E k \in 1..Len(Lower) : c = Lower[k] \/ c = Upper[k]
        fits == u.t = "str" /\ Len(u.v) >= 3 /\ Len(u.v) <= 20
    IN /\ out.ok =>
            /\ u.t = "str"
            /\ out.v.v.fields["username"].t = "str"
            /\ Len(out.v.v.fields["username"].v) = Len(u.v)
            /\ \A i \in 1..Len(u.v) :
                 /\ plain(u.v[i])
                 /\ out.v.v.fields["username"].v[i]
                      = IF \E k \in 1..Len(Upper) : Upper[k] = u.v[i]
                        THEN Lower[CHOOSE k \in 1..Len(Upper) : Upper[k] = u.v[i]]
                        ELSE u.v[i]
            /\ fits
       /\ u.t = "str" /\ (\E i \in 1..Len(u.v) : ~plain(u.v[i])) =>
            ~out.ok /\ (out.fault = "" => ErrsAt("username") # {})
       /\ out.fault = "" => (ran <=> fits)
       /\ ~fits /\ out.fault = "" =>
            /\ Cardinality(ErrsAt("username")) = 1
            /\ \A i \in ErrsAt("username") :
                 out.errs[i].kind
                   = IF u.t # "str" THEN "string_type"
                     ELSE IF Len(u.v) < 3 THEN "string_too_short"
                     ELSE "string_too_long"
       /\ fits /\ out.fault = "" =>
            \A i \in ErrsAt("username") : out.errs[i].kind = "value_error"

(* User(username="Bond_007", ...) of lesson 11 holds "bond_007" *)
C22_Witness ==
  /\ call.cls = "User11"
  /\ "username" \in DOMAIN call.raw
  /\ call.raw["username"] = S(Txt.uname)
  /\ out.ok
  /\ out.v.v.fields["username"] = S(<<"b", "o", "n", "d", "_", "0", "0", "7">>)
(* The kinds of the constraints of c that the resolved value v fails *)
ConsFailing(c, v) ==
  {k \in {"greater_than_equal", "less_than_equal", "string_too_short", "string_too_long",
          "string_pattern_mismatch"} :
     \/ k = "greater_than_equal" /\ v.t \in {"int", "float"} /\ \E n \in c.ge : v.v < n
     \/ k = "less_than_equal" /\ v.t \in {"int", "float"} /\ \E n \in c.le : v.v > n
     \/ k = "string_too_short" /\ v.t = "str" /\ \E n \in c.minLen : Len(v.v) < n
     \/ k = "string_too_long" /\ v.t = "str" /\ \E n \in c.maxLen : Len(v.v) > n
     \/ k = "string_pattern_mismatch" /\ v.t = "str" /\ c.pattern # ""
        /\ ~MatchesPattern(c.pattern, v.v)}

C24_BoundsInclusive ==
  Called /\ out.fault = "" =>
    /\ \A f \in FieldSet(call.cls) :
         f.cons # NoCons /\ f.cons.pattern = "" /\ f.name \in DOMAIN call.raw =>
           LET r == ValidateType(f.ty, call.raw[f.name], Config(call.cls).strict, CallEnv)
               size == IF r.v.t = "str" THEN Len(r.v.v) ELSE r.v.v
               low == f.cons.ge \cup f.cons.minLen
               high == f.cons.le \cup f.cons.maxLen
               at == {i \in ErrIdx : out.errs[i].loc = <<f.name>>
                                     /\ out.errs[i].kind # "value_error"}
           IN r.ok =>
                (at = {} <=> (\A n \in low : size >= n) /\ (\A n \in high : size <= n))
    /\ call.cls = "User09" /\ "uid" \in DOMAIN call.raw /\ call.raw["uid"] = I(0) =>
         ErrsAt("uid") = {}
    /\ call.cls = "User09" /\ "age" \in DOMAIN call.raw =>
         /\ call.raw["age"] \in {I(18), I(60)} => ErrsAt("age") = {}
         /\ call.raw["age"] \in {I(12), I(61)} => Cardinality(ErrsAt("age")) = 1
    /\ call.cls = "Booking" /\ "nights" \in DOMAIN call.raw =>
         /\ call.raw["nights"] = I(0) => Cardinality(ErrsAt("nights")) = 1
         /\ call.raw["nights"] = I(1) => ErrsAt("nights") = {}
    /\ call.cls = "Employee" /\ "salary" \in DOMAIN call.raw =>
         /\ call.raw["salary"] = I(10000) => ErrsAt("salary") = {}
         /\ call.raw["salary"] = F(999999) => Cardinality(ErrsAt("salary")) = 1
    /\ /\ call.cls = "User09"
       /\ DOMAIN call.raw = {"uid", "username", "email", "age"}
       /\ call.raw["uid"] = I(0) /\ call.raw["username"] = S(Txt.shortname)
       /\ call.raw["age"] = I(12)
       => /\ Len(out.errs) = 2
          /\ out.errs[1].loc = <<"username">> /\ out.errs[2].loc = <<"age">>

(* user_invalid of lesson 9 *)
C24_Witness ==
  /\ call.cls = "User09"
  /\ DOMAIN call.raw = {"uid", "username", "email", "age"}
  /\ call.raw["uid"] = I(0) /\ call.raw["username"] = S(Txt.shortname)
  /\ call.raw["age"] = I(12)
  /\ Len(out.errs) = 2
  /\ ErrsAt("uid") = {}
Left(f, raw, cls) ==
  f.alias \notin DOMAIN raw /\ ~(Config(cls).populate_by_name /\ f.name \in DOMAIN raw)

(* C25: defaults are trusted: a field with a default that the raw input     *)
(* omits gives no violation, its before- and after-validators are not run,   *)
(* and the record holds the default as declared (for a producer function, a  *)
(* value of its kind); and the producer is called anew by every call: two    *)
(* calls in a row that both omit the field hold different results.           *)
C25_DefaultsTrusted ==
  /\ [](Called /\ out.fault = "" =>
          \A f \in FieldSet(call.cls) :
            ~f.required /\ Left(f, call.raw, call.cls) =>
              /\ ErrsAt(f.name) = {} /\ ErrsAt(f.alias) = {}
              /\ \A i \in 1..Len(out.trace) :
                   out.trace[i][2] = call.cls =>
                     ~(out.trace[i][1] = "before" /\ out.trace[i][3] = f.before)
                     /\ ~(out.trace[i][1] = "after" /\ out.trace[i][3] = f.after)
              /\ out.ok =>
                   /\ f.factory = "" => out.v.v.fields[f.name] = f.default
                   /\ f.factory = "list" => out.v.v.fields[f.name] = L(<<>>)
                   /\ f.factory = "now" => out.v.v.fields[f.name].t = "datetime"
                   /\ f.factory = "uuid4" => out.v.v.fields[f.name].t = "uuid")
  /\ [][ script' # script /\ out.ok /\ out'.ok /\ call.cls = call'.cls =>
           \A f \in FieldSet(call.cls) :
             /\ f.factory \in {"now", "uuid4"}
             /\ Left(f, call.raw, call.cls) /\ Left(f, call'.raw, call.cls)
             => out'.v.v.fields[f.name] # out.v.v.fields[f.name] ]_vars

(* Two blog posts of lesson 8 in a row, neither given createAt *)
C25_Witness ==
  /\ Len(records) = 2
  /\ records[1].cls = "BlogPost08" /\ records[2].cls = "BlogPost08"
  /\ "createAt" \notin DOMAIN call.raw
  /\ records[1].fields["createAt"] # records[2].fields["createAt"]
  /\ records[2].fields["status"] = S(<<"d", "r", "a", "f", "t">>)
(* The keys of the raw input that the class of the call does not declare *)
Unknown ==
  DOMAIN call.raw \ ({f.alias : f \in FieldSet(call.cls)}
                     \cup IF Config(call.cls).populate_by_name THEN FieldNames(call.cls)
                          ELSE {})

RawKnown == [k \in DOMAIN call.raw \ Unknown |-> call.raw[k]]

C27_FaultIsViolation ==
  Called /\ call.cls \in {"User11", "User15"} /\ "website" \in DOMAIN call.raw
         /\ call.raw["website"].t = "int" /\ call.raw["website"].v # 0 =>
    /\ out.fault = ""
    /\ ~out.ok
    /\ ErrsAt("website") # {}
    /\ \A f \in FieldSet(call.cls) :
         f.name # "website" /\ ~ValidateField(call.cls, f, call.raw, CallEnv).ok
           => ErrsAt(f.name) # {}
(* model_dump() of a validated value: a nested record becomes the mapping   *)
(* of its declared fields, a list the list of the dumps of its items         *)
RECURSIVE PlainOf(_)
PlainOf(v) ==
  CASE v.t = "model" -> D([n \in DOMAIN v.v.fields |-> PlainOf(v.v.fields[n])])
    [] v.t = "list" -> L([i \in 1..Len(v.v) |-> PlainOf(v.v[i])])
    [] OTHER -> v

Again == Validate(call.cls, PlainOf(out.v).v, CallEnv)

(* C28: validation is idempotent on its own output: the mapping of the      *)
(* declared fields of a record a call returned is accepted by the class of   *)
(* the record and gives a record with the same field values (lower-casing    *)
(* a username again and prefixing a website again change nothing).           *)
C28_Idempotent ==
  Called /\ out.ok =>
    /\ Again.ok
    /\ PlainOf(Again.v) = PlainOf(out.v)

(* The same, for the records that hold no website *)
C28_IdempotentWithoutWebsite ==
  Called /\ out.ok
         /\ ("website" \in DOMAIN out.v.v.fields => out.v.v.fields["website"] = None) =>
    /\ Again.ok
    /\ PlainOf(Again.v) = PlainOf(out.v)
(* What the Comment schema asks of one mapping, applied by hand at every   *)
(* depth: the paths at which a violation is due. An id must be present and  *)
(* a whole number, a content present and a text; replies may be left out or *)
(* None, else it is a list whose mappings are comments in turn; a reply     *)
(* that is already a Comment is taken as it is.                             *)
RECURSIVE Due(_)
Due(raw) ==
  LET ids == IF "id" \in DOMAIN raw /\ ValidateType(TInt, raw["id"], FALSE, CallEnv).ok
             THEN {} ELSE {<<"id">>}
      cts == IF "content" \in DOMAIN raw /\ raw["content"].t = "str"
             THEN {} ELSE {<<"content">>}
      rs == IF "replies" \notin DOMAIN raw \/ raw["replies"] = None THEN {}
            ELSE IF raw["replies"].t # "list" THEN {<<"replies">>}
            ELSE LET xs == raw["replies"].v
                 IN UNION {IF xs[k].t = "dict"
                           THEN {<<"replies", IdxStr(k - 1)>> \o p : p \in Due(xs[k].v)}
                           ELSE IF xs[k].t = "model" /\ xs[k].v.cls = "Comment" THEN {}
                           ELSE {<<"replies", IdxStr(k - 1)>>} : k \in 1..Len(xs)}
  IN ids \cup cts \cup rs

(* The replies of a returned comment, at every depth, are comments *)
RECURSIVE Thread(_)
Thread(c) ==
  /\ c.t = "model" /\ c.v.cls = "Comment"
  /\ c.v.fields["id"].t = "int" /\ c.v.fields["content"].t = "str"
  /\ \/ c.v.fields["replies"] = None
     \/ /\ c.v.fields["replies"].t = "list"
        /\ \A k \in 1..Len(c.v.fields["replies"].v) : Thread(c.v.fields["replies"].v[k])

(* C29: validating a Comment, whose replies are an optional list of        *)
(* Comment, ends for every finite nested input with a record or with        *)
(* violations; every reply at every depth is held to the same schema, so    *)
(* the violations are exactly the ones due at any depth, each once, in one  *)
(* flat list, with the replies and fields beside a failing one still        *)
(* validated; replies left out or None is accepted and kept as None.        *)
C29_RecursiveReplies ==
  Called /\ call.cls = "Comment" =>
    /\ out.fault = ""
    /\ out.ok <=> Due(call.raw) = {}
    /\ {out.errs[i].loc : i \in ErrIdx} = Due(call.raw)
    /\ \A i, j \in ErrIdx : out.errs[i].loc = out.errs[j].loc => i = j
    /\ out.ok => Thread(out.v)
    /\ ("replies" \notin DOMAIN call.raw \/ call.raw["replies"] = None) /\ out.ok
         => out.v.v.fields["replies"] = None

(* A comment whose first reply has a reply with a bad id at the third     *)
(* level and a bad one next to it, and whose second reply is fine           *)
C29_Witness ==
  /\ Called /\ call.cls = "Comment"
  /\ "replies" \in DOMAIN call.raw
  /\ call.raw["replies"] =
       L(<<ReplyWith(L(<<ReplyWith(L(<<ReplyOk, ReplyShort>>)), ReplyBad>>)), ReplyOk>>)
  /\ "id" \in DOMAIN call.raw /\ call.raw["id"] = S(Txt.nan)
  /\ [i \in ErrIdx |-> out.errs[i].loc] =
       << <<"id">>,
          <<"replies", "0", "replies", "0", "replies", "1", "content">>,
          <<"replies", "0", "replies", "1", "id">> >>

(* A comment with replies left out, and one with replies None, accepted *)
C29_WitnessNoReplies ==
  /\ Called /\ call.cls = "Comment" /\ out.ok
  /\ "replies" \in DOMAIN call.raw /\ call.raw["replies"] = None

(* The checks of create_user that fail on the arguments of the call, in    *)
(* the order username, email, age                                           *)
FailingChecks ==
  SelectSeq(<<"Username", "Email", "Age">>,
            LAMBDA n :
              CASE n = "Username" -> call.raw.username.t # "str"
                [] n = "Email" -> call.raw.email.t # "str"
                [] n = "Age" -> call.raw.age.t \notin {"int", "bool"})

(* C30: create_user checks username, then email, then age and reports only *)
(* the first failing check: whatever the number of invalid arguments,       *)
(* exactly one error is printed and the result is None; no exception        *)
(* reaches the caller; the success message is returned iff all three type   *)
(* checks pass.                                                             *)
C30_FirstErrorOnly ==
  call.cls = "create_user" =>
    /\ out.fault = ""
    /\ out.ok <=> FailingChecks = <<>>
    /\ out.ok => /\ out.errs = <<>>
                 /\ out.v = D([Username |-> call.raw.username, Email |-> call.raw.email,
                               Age |-> call.raw.age])
    /\ ~out.ok => /\ out.v = None
                  /\ Len(out.errs) = 1
                  /\ out.errs[1].loc = <<Head(FailingChecks)>>

(* user2 = create_user("JohnCena", None, "WWE"): two invalid arguments, the *)
(* email alone reported                                                      *)
C30_Witness ==
  /\ call.cls = "create_user"
  /\ call.raw = [username |-> S(Txt.john), email |-> None, age |-> S(Txt.WWE)]
  /\ ~out.ok /\ out.v = None
  /\ [i \in ErrIdx |-> out.errs[i].loc] = << <<"Email">> >>

====
